---------------------------- MODULE Spec2Model ----------------------------
(***************************************************************************)
(* CheeU retrieval pipeline: the priority-weighted search of CheeUVectorDB *)
(* (vectordb.py), its confidence scorer, and the message generation of     *)
(* CheeUChatbot / CheeURagPipeline / api.quick_healing_message.            *)
(*                                                                         *)
(* Numbers.  Distances, similarities and weights are kept in tenths        *)
(* (0.7 is 7).  A fused score is kept in units of 1/(100 * ScoreDen) and  *)
(* a confidence in units of 1/ConfDen, which makes every division exact.   *)
(* Strings are sequences of one-character strings.                         *)
(***************************************************************************)
EXTENDS Integers, Sequences, FiniteSets, TLC

VARIABLES
    store,          \* the documents held by the Chroma collection
    search_cache,   \* CheeUVectorDB._search_cache : key -> list of documents
    ret,            \* the call in progress, with what it returned ("none": idle)
    stored_by,      \* history: for each key of the cache, the call that stored it,
                    \* the collection it searched, and whether the service failed
    conf_docs,      \* calculate_search_confidence: the docs argument
    conf_keywords,  \* calculate_search_confidence: the keywords argument
    conf_result,    \* calculate_search_confidence: the value returned (-1: not yet)
    conf_prev,      \* the call before on the same docs: its keywords and value
    pipeline_instance,  \* api._pipeline_instance (class "None": unset)
    pipelines_built,    \* history: the pipelines api.create_pipeline has built
    chat            \* the healing-message call in progress, with what it returned

vdb_vars == <<store, search_cache, ret, stored_by>>
conf_vars == <<conf_docs, conf_keywords, conf_result, conf_prev>>
chat_vars == <<pipeline_instance, pipelines_built, chat>>
vars == <<vdb_vars, conf_vars, chat_vars>>

-----------------------------------------------------------------------------
(* Bounds of the model *)

MaxSubQueries == 2      \* longest sub_queries list of a direct call
MaxK == 2               \* largest k of a direct call
MaxDocs == 2            \* longest document list given to the scorer
MaxKeywords == 2        \* longest keyword list given to the scorer
MaxAdded == 2           \* longest document list given to add_documents
MaxRequests == 2        \* longest request list given to the batch
MaxBuilt == 2           \* most pipelines built by get_pipeline

-----------------------------------------------------------------------------
(* Small helpers *)

Max2(a, b) == IF a >= b THEN a ELSE b
Min2(a, b) == IF a <= b THEN a ELSE b

Head_(s, n) == SubSeq(s, 1, Min2(n, Len(s)))

RECURSIVE SeqsUpTo(_, _)
SeqsUpTo(S, n) ==
    IF n = 0 THEN {<<>>}
    ELSE LET shorter == SeqsUpTo(S, n - 1)
         IN  shorter \cup {Append(s, x) : s \in {t \in shorter : Len(t) = n - 1}, x \in S}

-----------------------------------------------------------------------------
(* Python strings *)

\* str.strip(): drop leading and trailing white space
RECURSIVE LStrip(_)
LStrip(s) == IF s # <<>> /\ Head(s) = " " THEN LStrip(Tail(s)) ELSE s

RECURSIVE RStrip(_)
RStrip(s) ==
    IF s # <<>> /\ s[Len(s)] = " " THEN RStrip(SubSeq(s, 1, Len(s) - 1)) ELSE s

Strip(s) == RStrip(LStrip(s))

\* truth value of a string: non-empty
Truthy(s) == s # <<>>

\* str(list of str): "['s', 't']"
RECURSIVE ReprItems(_)
ReprItems(l) ==
    IF l = <<>> THEN <<>>
    ELSE <<"'">> \o Head(l) \o <<"'">>
         \o (IF Len(l) > 1 THEN <<",", " ">> ELSE <<>>) \o ReprItems(Tail(l))

Str(l) == <<"[">> \o ReprItems(l) \o <<"]">>

Alphabet ==
    <<" ", "'", ",", "[", "]", "S", "T", "m", "n", "s", "t",
      "10s", "20s", "30s", "40s", "50s", "60s+", "male", "female", "other",
      "IT", "ITdev", "etc", "overtime", "deadline", "tech_change", "project",
      "bug", "work_stress", "work", "stress", "anxiety", "irregular_life",
      "present_awareness", "acceptance", "u">>

CharCode(c) == CHOOSE i \in 1..Len(Alphabet) : Alphabet[i] = c

\* hash(str): a polynomial hash, one character at a time
RECURSIVE HashFrom(_, _)
HashFrom(s, n) ==
    IF n = 0 THEN 7
    ELSE (HashFrom(s, n - 1) * 31 + CharCode(s[n])) % 1000003

Hash(s) == HashFrom(s, Len(s))

-----------------------------------------------------------------------------
(* Documents and the similarity search service (Chroma)                      *)

\* A Document: page_content is head (its first 100 characters) followed by
\* tail; length, periods and words are what the scorer reads in the content
\* (len, count('.'), the lower-case keywords it contains); filename and source
\* are the metadata entries.
DocA1 == [head |-> "A", tail |-> "x", length |-> 500, periods |-> 3,
          words |-> {<<"s">>}, filename |-> "a1.pdf", source |-> "research_paper"]
DocA2 == [head |-> "A", tail |-> "y", length |-> 1200, periods |-> 1,
          words |-> {<<"s">>, <<"t">>}, filename |-> "a2.pdf", source |-> "web"]
DocB  == [head |-> "B", tail |-> "", length |-> 60, periods |-> 0,
          words |-> {}, filename |-> "", source |-> "research_paper"]
DocC  == [head |-> "C", tail |-> "z", length |-> 2000, periods |-> 5,
          words |-> {<<"t">>}, filename |-> "c.pdf", source |-> ""]

CorpusSeq == <<DocA1, DocA2, DocB, DocC>>
Corpus == {CorpusSeq[i] : i \in 1..Len(CorpusSeq)}
CorpusIndex(d) == CHOOSE i \in 1..Len(CorpusSeq) : CorpusSeq[i] = d

\* page_content[:100]
DocId(doc) == doc.head

\* What a query is about, as the embedding model sees it: its first
\* non-blank character ("" for a blank query).
Topic(q) == IF Strip(q) = <<>> THEN "" ELSE Head(Strip(q))

\* Distance of a document to a query, in tenths (12 is 1.2).
Distance(q, d) ==
    LET t == Topic(q)
        i == CorpusIndex(d)
    IN  CASE t = "m" -> <<2, 11, 4, 12>>[i]
          [] t = "n" -> <<6, 6, 6, 1>>[i]
          [] t = "s" -> <<3, 15, 1, 3>>[i]
          [] t = "t" -> <<9, 5, 5, 0>>[i]
          [] t = "u" -> <<2, 3, 6, 1>>[i]
          [] OTHER   -> <<9, 9, 10, 13>>[i]

\* d1 is ranked before d2 for query q (nearest first, the older document first
\* among equally distant ones)
Nearer(q, d1, d2) ==
    \/ Distance(q, d1) < Distance(q, d2)
    \/ Distance(q, d1) = Distance(q, d2) /\ CorpusIndex(d1) < CorpusIndex(d2)

RECURSIVE Ranking(_, _)
Ranking(S, q) ==
    IF S = {} THEN <<>>
    ELSE LET best == CHOOSE d \in S : \A e \in S \ {d} : Nearer(q, d, e)
         IN  <<best>> \o Ranking(S \ {best}, q)

\* vector_store.similarity_search_with_score(query, k=n): (document, distance)
similarity_search_with_score(S, q, n) ==
    LET r == Head_(Ranking(S, q), n)
    IN  [i \in 1..Len(r) |-> <<r[i], Distance(q, r[i])>>]

\* vector_store.similarity_search(query, k=n): the documents alone
similarity_search(S, q, n) == Head_(Ranking(S, q), n)

-----------------------------------------------------------------------------
(* CheeUVectorDB: the search cache                                           *)

\* self._cache_max_size.  The source sets 100; the model keeps the same test
\* (len(cache) < max) with a capacity a small model can fill.
cache_max_size == 1

EmptyCache == [key \in {} |-> <<>>]

\* a cache that stores without looking at its size
CacheStore_NoLimit(cache, key, docs) ==
    [x \in (DOMAIN cache) \cup {key} |-> IF x = key THEN docs ELSE cache[x]]

\* if len(self._search_cache) < self._cache_max_size: self._search_cache[key] = docs
CacheStore(cache, key, docs) ==
    IF Cardinality(DOMAIN cache) < cache_max_size
    THEN [x \in (DOMAIN cache) \cup {key} |-> IF x = key THEN docs ELSE cache[x]]
    ELSE cache

\* f"basic_{query}_{k}"
BasicKey(query, k) == <<"basic", query, k>>

\* f"priority_{main_query}_{hash(str(sub_queries))}_{k}"
PriorityKey(main_query, sub_queries, k) ==
    <<"priority", main_query, Hash(Str(sub_queries)), k>>

-----------------------------------------------------------------------------
(* CheeUVectorDB.search_basic                                                *)

\* fail: the similarity search raises.  The outcome holds the returned list
\* (raised: an exception left the method instead), the cache after the call and
\* the number of service calls made.
search_basic(S, cache, query, k, fail) ==
    LET cache_key == BasicKey(query, k)
    IN  IF cache_key \in DOMAIN cache
        THEN [raised |-> FALSE, result |-> cache[cache_key], cache |-> cache,
              calls |-> 0, basic |-> "cache_hit"]
        ELSE IF fail
        THEN \* except Exception: return []
             [raised |-> FALSE, result |-> <<>>, cache |-> cache, calls |-> 1,
              basic |-> "failed"]
        ELSE LET docs == similarity_search(S, query, k)
             IN  [raised |-> FALSE, result |-> docs,
                  cache |-> CacheStore(cache, cache_key, docs),
                  calls |-> 1, basic |-> "searched"]

-----------------------------------------------------------------------------
(* CheeUVectorDB.search_with_priority_weighting: the fusion                  *)

RECURSIVE Gcd(_, _)
Gcd(a, b) == IF b = 0 THEN a ELSE Gcd(b, a % b)

Lcm(a, b) == (a * b) \div Gcd(a, b)

RECURSIVE LcmUpTo(_)
LcmUpTo(n) == IF n <= 1 THEN 1 ELSE Lcm(LcmUpTo(n - 1), n)

\* scores are counted in units of 1 / (100 * ScoreDen); the chatbot sends up to
\* 4 + 3 + 6 sub-queries
ScoreDen == LcmUpTo(Max2(MaxSubQueries, 4 + 3 + 6))

\* a conversion that is not cut at zero
Similarity_NoClamp(distance) == 10 - distance

\* similarity = max(0, 1 - distance), in tenths
Similarity(distance) == Max2(0, 10 - distance)

\* a dict in which no key is ever found: every hit is a candidate of its own
DictIndex_NoKey(doc_scores, doc_id) == 0

\* the position of key doc_id in the dict (0: absent)
DictIndex(doc_scores, doc_id) ==
    IF \E i \in 1..Len(doc_scores) : doc_scores[i].doc_id = doc_id
    THEN CHOOSE i \in 1..Len(doc_scores) : doc_scores[i].doc_id = doc_id
    ELSE 0

\* doc_scores[doc_id] = entry: a dict keeps the place of a key it already holds
DictSet(doc_scores, entry) ==
    LET i == DictIndex(doc_scores, entry.doc_id)
    IN  IF i = 0 THEN Append(doc_scores, entry)
        ELSE [doc_scores EXCEPT ![i] = entry]

\* the loop over main_docs_with_scores
RECURSIVE ApplyMain(_, _, _)
ApplyMain(doc_scores, hits, main_weight) ==
    IF hits = <<>> THEN doc_scores
    ELSE LET doc == Head(hits)[1]
             similarity == Similarity(Head(hits)[2])
         IN  ApplyMain(DictSet(doc_scores,
                               [doc_id |-> DocId(doc), doc |-> doc,
                                score |-> similarity * main_weight * ScoreDen,
                                main_score |-> similarity, sub_score |-> 0]),
                       Tail(hits), main_weight)

\* sub_weight / max(len([q for q in sub_queries if q.strip()]), 1), in score units
NonBlankCount(sub_queries) ==
    Cardinality({i \in 1..Len(sub_queries) : Strip(sub_queries[i]) # <<>>})

SubWeightPerQuery(sub_weight, sub_queries) ==
    (sub_weight * ScoreDen) \div Max2(NonBlankCount(sub_queries), 1)

\* a loop that assigns the sub-query score where the source adds it
RECURSIVE ApplySub_Overwrite(_, _, _)
ApplySub_Overwrite(doc_scores, hits, sub_weight_per_query) ==
    IF hits = <<>> THEN doc_scores
    ELSE LET doc == Head(hits)[1]
             similarity == Similarity(Head(hits)[2])
             i == DictIndex(doc_scores, DocId(doc))
             next ==
                 IF i # 0
                 THEN [doc_scores EXCEPT
                         ![i].score = similarity * sub_weight_per_query,
                         ![i].sub_score = similarity * sub_weight_per_query]
                 ELSE Append(doc_scores,
                             [doc_id |-> DocId(doc), doc |-> doc,
                              score |-> similarity * sub_weight_per_query,
                              main_score |-> 0,
                              sub_score |-> similarity * sub_weight_per_query])
         IN  IF next = <<>> THEN next
             ELSE ApplySub_Overwrite(next, Tail(hits), sub_weight_per_query)

\* the loop over sub_docs_with_scores
RECURSIVE ApplySub(_, _, _)
ApplySub(doc_scores, hits, sub_weight_per_query) ==
    IF hits = <<>> THEN doc_scores
    ELSE LET doc == Head(hits)[1]
             similarity == Similarity(Head(hits)[2])
             i == DictIndex(doc_scores, DocId(doc))
             next ==
                 IF i # 0
                 THEN [doc_scores EXCEPT
                         ![i].score = @ + similarity * sub_weight_per_query,
                         ![i].sub_score = @ + similarity * sub_weight_per_query]
                 ELSE Append(doc_scores,
                             [doc_id |-> DocId(doc), doc |-> doc,
                              score |-> similarity * sub_weight_per_query,
                              main_score |-> 0,
                              sub_score |-> similarity * sub_weight_per_query])
         IN  IF next = <<>> THEN next    \* (never: next holds the entry of doc)
             ELSE ApplySub(next, Tail(hits), sub_weight_per_query)

\* a sort that puts the later of two equal scores first
RECURSIVE InsertDesc_TiesFirst(_, _)
InsertDesc_TiesFirst(sorted, e) ==
    IF sorted = <<>> THEN <<e>>
    ELSE IF Head(sorted).score > e.score
         THEN <<Head(sorted)>> \o InsertDesc_TiesFirst(Tail(sorted), e)
         ELSE <<e>> \o sorted

\* sorted(doc_scores.values(), key=score, reverse=True): stable, equal scores
\* keep their order
RECURSIVE InsertDesc(_, _)
InsertDesc(sorted, e) ==
    IF sorted = <<>> THEN <<e>>
    ELSE IF Head(sorted).score >= e.score
         THEN <<Head(sorted)>> \o InsertDesc(Tail(sorted), e)
         ELSE <<e>> \o sorted

\* a sort that takes the entries from the last to the first: equal scores
\* come out in the reverse of their order
RECURSIVE SortedDesc_Reversed(_)
SortedDesc_Reversed(entries) ==
    IF entries = <<>> THEN <<>>
    ELSE InsertDesc(SortedDesc_Reversed(Tail(entries)), Head(entries))

RECURSIVE SortedDesc(_)
SortedDesc(entries) ==
    IF entries = <<>> THEN <<>>
    ELSE InsertDesc(SortedDesc(SubSeq(entries, 1, Len(entries) - 1)),
                    entries[Len(entries)])

\* a ranking cut one place too early
TopK_OffByOne(entries, k) == Head_(SortedDesc(entries), k - 1)

\* a ranking that is not cut at k
TopK_NoCut(entries, k) == SortedDesc(entries)

\* sorted(...)[:k]
TopK(entries, k) == Head_(SortedDesc(entries), k)

\* the sub-query loop: a blank sub-query is skipped, a failed one is skipped
\* after the warning, the others extend sub_docs_with_scores (k*2 candidates)
RECURSIVE SubSearch(_, _, _, _, _)
SubSearch(S, sub_queries, i, k, failSubs) ==
    IF i > Len(sub_queries) THEN <<>>
    ELSE LET sub_query == sub_queries[i]
             here == IF Truthy(sub_query) /\ Truthy(Strip(sub_query)) /\ i \notin failSubs
                     THEN similarity_search_with_score(S, sub_query, k * 2)
                     ELSE <<>>
         IN  here \o SubSearch(S, sub_queries, i + 1, k, failSubs)

\* the sub-queries the loop sends to the service
Searched(sub_queries) ==
    {i \in 1..Len(sub_queries) : Truthy(sub_queries[i]) /\ Truthy(Strip(sub_queries[i]))}

\* The outcome of a call holds the returned list (raised: an exception left
\* the method instead), the cache after the call, the number of service calls
\* made, the way the call went (path) and the locals of the fusion.

\* if cache_key in self._search_cache: return self._search_cache[cache_key]
CacheHit(cache, cache_key) ==
    [raised |-> FALSE, result |-> cache[cache_key], cache |-> cache,
     calls |-> 0, path |-> "cache_hit", basic |-> "none",
     main_docs_with_scores |-> <<>>, sub_docs_with_scores |-> <<>>,
     doc_scores |-> <<>>, sub_failed |-> {}]

\* return self.search_basic(main_query, k): b is what search_basic gives
FallbackReturn(b) ==
    [raised |-> b.raised, result |-> b.result, cache |-> b.cache,
     calls |-> 1 + b.calls, path |-> "fallback", basic |-> b.basic,
     main_docs_with_scores |-> <<>>, sub_docs_with_scores |-> <<>>,
     doc_scores |-> <<>>, sub_failed |-> {}]

\* a fallback that sends the main query once more before the plain search
Fallback_RetryMain(S, cache, main_query, k, failBasic) ==
    [FallbackReturn(search_basic(S, cache, main_query, k, failBasic)) EXCEPT
        !.calls = @ + 1]

\* a fallback that lets the exception of the main query leave the method
Fallback_Raise(S, cache, main_query, k, failBasic) ==
    [raised |-> TRUE, result |-> <<>>, cache |-> cache,
     calls |-> 1, path |-> "fallback", basic |-> "none",
     main_docs_with_scores |-> <<>>, sub_docs_with_scores |-> <<>>,
     doc_scores |-> <<>>, sub_failed |-> {}]

\* except Exception: return self.search_basic(main_query, k)
Fallback(S, cache, main_query, k, failBasic) ==
    FallbackReturn(search_basic(S, cache, main_query, k, failBasic))

\* result_docs = [item['doc'] for item in sorted_docs]
ResultDocs(sorted_docs) == [i \in 1..Len(sorted_docs) |-> sorted_docs[i].doc]

\* the end of the try block: the result is stored in the cache and returned
FusionReturn(cache, cache_key, calls, main_docs_with_scores, sub_docs_with_scores, doc_scores, sub_failed, result_docs) ==
    [raised |-> FALSE, result |-> result_docs,
     cache |-> CacheStore(cache, cache_key, result_docs),
     calls |-> calls, path |-> "fusion", basic |-> "none",
     main_docs_with_scores |-> main_docs_with_scores,
     sub_docs_with_scores |-> sub_docs_with_scores,
     doc_scores |-> doc_scores, sub_failed |-> sub_failed]

\* sorted_docs = sorted(...)[:k] of the scored candidates
FusionRank(cache, cache_key, calls, main_docs_with_scores, sub_docs_with_scores, sub_failed, doc_scores, k) ==
    FusionReturn(cache, cache_key, calls, main_docs_with_scores,
                 sub_docs_with_scores, doc_scores, sub_failed,
                 ResultDocs(TopK(doc_scores, k)))

\* the try block once the searches have answered: the scores of the candidates
FusionScore(cache, cache_key, calls, main_docs_with_scores, sub_docs_with_scores, sub_failed, main_weight, sub_weight_per_query, k) ==
    FusionRank(cache, cache_key, calls, main_docs_with_scores,
               sub_docs_with_scores, sub_failed,
               ApplySub(ApplyMain(<<>>, main_docs_with_scores, main_weight),
                        sub_docs_with_scores, sub_weight_per_query),
               k)

\* the body of the try block once the main query has answered; failSubs: the
\* positions of the sub-queries on which the service raises
Fusion(S, cache, main_query, sub_queries, main_weight, sub_weight, k, failSubs) ==
    FusionScore(cache, PriorityKey(main_query, sub_queries, k),
                1 + Cardinality(Searched(sub_queries)),
                similarity_search_with_score(S, main_query, k * 3),
                SubSearch(S, sub_queries, 1, k, failSubs \cap Searched(sub_queries)),
                failSubs \cap Searched(sub_queries),
                main_weight, SubWeightPerQuery(sub_weight, sub_queries), k)

\* a call in which a failing sub-query is not caught by the loop and reaches
\* the handler of the whole method
search_with_priority_weighting_SubAbort(S, cache, main_query, sub_queries, main_weight, sub_weight, k, failMain, failSubs, failBasic) ==
    LET cache_key == PriorityKey(main_query, sub_queries, k)
    IN  IF cache_key \in DOMAIN cache THEN CacheHit(cache, cache_key)
        ELSE IF failMain THEN Fallback(S, cache, main_query, k, failBasic)
        ELSE IF failSubs \cap Searched(sub_queries) # {}
        THEN [Fallback(S, cache, main_query, k, failBasic)
                EXCEPT !.sub_failed = failSubs \cap Searched(sub_queries)]
        ELSE Fusion(S, cache, main_query, sub_queries, main_weight, sub_weight,
                    k, failSubs)

\* The whole call.  failMain, failSubs, failBasic: which service calls raise
\* (the over-fetching main query, the sub-queries at these positions, the plain
\* search of the fallback).
search_with_priority_weighting(S, cache, main_query, sub_queries, main_weight, sub_weight, k, failMain, failSubs, failBasic) ==
    LET cache_key == PriorityKey(main_query, sub_queries, k)
    IN  IF cache_key \in DOMAIN cache THEN CacheHit(cache, cache_key)
        ELSE IF failMain THEN Fallback(S, cache, main_query, k, failBasic)
        ELSE Fusion(S, cache, main_query, sub_queries, main_weight, sub_weight,
                    k, failSubs)

-----------------------------------------------------------------------------
(* The callers of CheeUVectorDB: one call at a time                          *)

MainQueries == {<<"m">>}
SubQueryStrings == {<<"s">>, <<"t">>, <<" ">>}
\* the sub_queries lists of a direct call: each string at most once
SubQueryLists ==
    {l \in SeqsUpTo(SubQueryStrings, MaxSubQueries) :
        \A i, j \in 1..Len(l) : l[i] = l[j] => i = j}
WeightPairs == {<<7, 3>>, <<4, 6>>, <<5, 3>>}
Ks == 1..MaxK

Idle == [op |-> "none"]

\* _pipeline_instance = None; the n-th CheeURagPipeline that was built
NonePipeline == [class |-> "None", id |-> 0]
CheeURagPipeline(n) == [class |-> "CheeURagPipeline", id |-> n]

\* no call of the scorer came before
NoPrev == [keywords |-> <<>>, result |-> -1]

\* the scorer is not in use
ConfIdle ==
    /\ conf_docs = <<>>
    /\ conf_keywords = <<>>
    /\ conf_result = -1
    /\ conf_prev = NoPrev

\* no pipeline has been built and no healing message is asked for
ChatIdle ==
    /\ pipeline_instance = NonePipeline
    /\ pipelines_built = 0
    /\ chat = Idle

Init ==
    /\ store \in SUBSET Corpus
    /\ search_cache = EmptyCache
    /\ stored_by = EmptyCache
    /\ ret = Idle
    /\ ConfIdle
    /\ ChatIdle

\* Which service calls of one search_with_priority_weighting call raise: the
\* main query (and then maybe the plain search of the fallback), or some of the
\* sub-queries that are sent.
FailurePatterns(sub_queries) ==
    {[main |-> FALSE, subs |-> fs, basic |-> FALSE] : fs \in SUBSET Searched(sub_queries)}
    \cup {[main |-> TRUE, subs |-> {}, basic |-> b] : b \in BOOLEAN}

\* a caller runs search_with_priority_weighting to its return
CallPriority ==
    /\ ret.op = "none"
    /\ \E main_query \in MainQueries, sub_queries \in SubQueryLists,
          w \in WeightPairs, k \in Ks :
         \E f \in FailurePatterns(sub_queries) :
           \E out \in {search_with_priority_weighting(
                          store, search_cache, main_query, sub_queries,
                          w[1], w[2], k, f.main, f.subs, f.basic)} :
               /\ search_cache' = out.cache
               /\ ret' = [op |-> "priority", main_query |-> main_query,
                          sub_queries |-> sub_queries, main_weight |-> w[1],
                          sub_weight |-> w[2], k |-> k, out |-> out]
    /\ UNCHANGED <<store, stored_by, conf_vars, chat_vars>>

\* a caller runs search_basic to its return
CallBasic ==
    /\ ret.op = "none"
    /\ \E query \in MainQueries, k \in Ks, fail \in BOOLEAN :
         \E out \in {search_basic(store, search_cache, query, k, fail)} :
             /\ search_cache' = out.cache
             /\ ret' = [op |-> "basic", query |-> query, k |-> k, out |-> out]
    /\ UNCHANGED <<store, stored_by, conf_vars, chat_vars>>

\* CheeUVectorDB.clear_cache
clear_cache ==
    /\ ret.op = "none"
    /\ search_cache # EmptyCache
    /\ search_cache' = EmptyCache
    /\ stored_by' = EmptyCache
    /\ UNCHANGED <<store, ret, conf_vars, chat_vars>>

\* the caller has taken the returned list
Return ==
    /\ ret.op # "none"
    /\ ret' = Idle
    /\ UNCHANGED <<store, search_cache, stored_by, conf_vars, chat_vars>>

Next == CallPriority \/ CallBasic \/ clear_cache \/ Return

Spec == Init /\ [][Next]_vars

-----------------------------------------------------------------------------
(* The cache over a sequence of calls, with the documents that are added     *)

\* the batch_size default of add_documents
default_batch_size == 50

\* range(0, len(documents), batch_size): the number of batches
NumBatches(documents, batch_size) == (Len(documents) + batch_size - 1) \div batch_size

\* the collection after the first n batches have been added
AddBatches(S, documents, batch_size, n) ==
    S \cup {documents[i] : i \in 1..Min2(n * batch_size, Len(documents))}

\* CheeUVectorDB.add_documents.  fail_at: the batch on which
\* vector_store.add_documents raises (0: none); the exception is raised again
\* and the cache is cleared only when every batch has been added
add_documents(S, cache, documents, batch_size, fail_at) ==
    IF fail_at = 0
    THEN [raised |-> FALSE, cache |-> EmptyCache,
          store |-> AddBatches(S, documents, batch_size, NumBatches(documents, batch_size))]
    ELSE [raised |-> TRUE, cache |-> cache,
          store |-> AddBatches(S, documents, batch_size, fail_at - 1)]

\* the lists a caller adds: documents the collection does not hold, each once
AddLists(S) ==
    {l \in SeqsUpTo(Corpus \ S, MaxAdded) : \A i, j \in 1..Len(l) : l[i] = l[j] => i = j}

BatchSizes == {1, default_batch_size}

\* a call of the similarity search raised during the call that gave out: the
\* main query (the fallback is taken for no other reason) or a sub-query
ServiceFailed(out) == out.path = "fallback" \/ out.sub_failed # {}

\* the history after a call: the keys the call has stored are its own, with
\* the collection the call searched
StoredBy(cache, call) ==
    [x \in DOMAIN cache |-> IF x \in DOMAIN search_cache THEN stored_by[x] ELSE call]

\* the sub_queries lists of the calls that fill the cache
CacheSubQueryLists == {<<>>, << <<"s">> >>, << <<"t">> >>, << <<"u">> >>}

\* a caller runs search_with_priority_weighting to its return
CachePriority ==
    /\ ret.op = "none"
    /\ \E main_query \in MainQueries, sub_queries \in CacheSubQueryLists,
          w \in WeightPairs, k \in Ks :
         \E f \in FailurePatterns(sub_queries) :
           \E out \in {search_with_priority_weighting(
                          store, search_cache, main_query, sub_queries,
                          w[1], w[2], k, f.main, f.subs, f.basic)} :
               /\ search_cache' = out.cache
               /\ ret' = [op |-> "priority", main_query |-> main_query,
                          sub_queries |-> sub_queries, main_weight |-> w[1],
                          sub_weight |-> w[2], k |-> k, out |-> out]
               /\ stored_by' = StoredBy(out.cache,
                                  [op |-> "priority", main_query |-> main_query,
                                   sub_queries |-> sub_queries, main_weight |-> w[1],
                                   sub_weight |-> w[2], k |-> k, store |-> store,
                                   failed |-> ServiceFailed(out)])
    /\ UNCHANGED <<store, conf_vars, chat_vars>>

\* a caller runs search_basic to its return
CacheBasic ==
    /\ ret.op = "none"
    /\ \E query \in MainQueries, k \in Ks, fail \in BOOLEAN :
         \E out \in {search_basic(store, search_cache, query, k, fail)} :
             /\ search_cache' = out.cache
             /\ ret' = [op |-> "basic", query |-> query, k |-> k, out |-> out]
             /\ stored_by' = StoredBy(out.cache,
                                [op |-> "basic", query |-> query, k |-> k,
                                 store |-> store, failed |-> fail])
    /\ UNCHANGED <<store, conf_vars, chat_vars>>

\* a caller runs add_documents to its return
CallAddDocuments ==
    /\ ret.op = "none"
    /\ \E documents \in AddLists(store), batch_size \in BatchSizes :
         \E fail_at \in 0..NumBatches(documents, batch_size) :
           \E out \in {add_documents(store, search_cache, documents, batch_size, fail_at)} :
               /\ store' = out.store
               /\ search_cache' = out.cache
               /\ stored_by' = StoredBy(out.cache, [op |-> "none"])
               /\ ret' = [op |-> "add_documents", documents |-> documents,
                          batch_size |-> batch_size, out |-> out]
    /\ UNCHANGED <<conf_vars, chat_vars>>

NextCache ==
    CachePriority \/ CacheBasic \/ CallAddDocuments \/ clear_cache \/ Return

SpecCache == Init /\ [][NextCache]_vars

-----------------------------------------------------------------------------
(* Properties of search_with_priority_weighting                              *)

PriorityReturned == ret.op = "priority"

\* the document lists a call received from the service
HitDocs(hits) == [i \in 1..Len(hits) |-> hits[i][1]]
HitIds(hits) == {DocId(hits[i][1]) : i \in 1..Len(hits)}

\* C1: whatever the service does (answers, raises, or is not asked because of
\* a cache hit), search_with_priority_weighting returns, without raising, a
\* list of at most k documents.
C1_AtMostK ==
    PriorityReturned =>
        /\ ~ret.out.raised
        /\ Len(ret.out.result) <= ret.k

\* a cache hit that returns a full list of k = 2 documents
C1_Witness ==
    /\ PriorityReturned
    /\ ret.out.path = "cache_hit"
    /\ ret.k = 2
    /\ Len(ret.out.result) = ret.k

\* C2: when no search call fails, the call returns at least min(k, U)
\* documents, U being the number of distinct 100-character prefixes among the
\* documents the main query and the non-blank sub-queries returned.
UniqueFound ==
    Cardinality(HitIds(ret.out.main_docs_with_scores)
                \cup HitIds(ret.out.sub_docs_with_scores))

C2_AtLeastMinKU ==
    (PriorityReturned /\ ret.out.path = "fusion" /\ ret.out.sub_failed = {}) =>
        Len(ret.out.result) >= Min2(ret.k, UniqueFound)

\* a fusion without failure in which the queries returned more documents than
\* distinct prefixes, fewer distinct prefixes than k, and all of them come back
C2_Witness ==
    /\ PriorityReturned
    /\ ret.out.path = "fusion"
    /\ ret.out.sub_failed = {}
    /\ ret.out.sub_docs_with_scores # <<>>
    /\ Len(ret.out.main_docs_with_scores) > UniqueFound
    /\ UniqueFound < ret.k
    /\ Len(ret.out.result) = UniqueFound

\* C3 as claimed: with no sub-queries the call returns the first k results of
\* the main query in the order of the service, whatever these results are.
FirstKOfMain ==
    Head_(HitDocs(ret.out.main_docs_with_scores), ret.k)

C3_Original ==
    (PriorityReturned /\ ret.out.path = "fusion" /\ ret.sub_queries = <<>>) =>
        ret.out.result = FirstKOfMain

\* the main-query results have pairwise distinct 100-character prefixes
DistinctPrefixes(hits) ==
    \A i, j \in 1..Len(hits) : DocId(hits[i][1]) = DocId(hits[j][1]) => i = j

\* C3 amended: with no sub-queries and main-query results of pairwise distinct
\* 100-character prefixes (distances above 1 included), the call returns the
\* first k results of the main query in the order of the service.
C3_PlainOrder ==
    (/\ PriorityReturned
     /\ ret.out.path = "fusion"
     /\ ret.sub_queries = <<>>
     /\ DistinctPrefixes(ret.out.main_docs_with_scores)) =>
        ret.out.result = FirstKOfMain

\* no sub-queries, distinct prefixes, and two returned results beyond distance 1
C3_Witness ==
    /\ PriorityReturned
    /\ ret.out.path = "fusion"
    /\ ret.sub_queries = <<>>
    /\ DistinctPrefixes(ret.out.main_docs_with_scores)
    /\ Len(ret.out.result) = 2
    /\ \A i \in 1..2 : ret.out.main_docs_with_scores[i][2] > 10
    /\ ret.out.result = FirstKOfMain

\* C4: a document returned by the main query and by sub-queries has the fused
\* score main_similarity * main_weight + the sum, over its sub-query hits, of
\* sub_similarity * (sub_weight / max(1, number of non-blank sub-queries)); the
\* sub-query contributions are added and the main score is kept.
RECURSIVE SumSim(_, _)
SumSim(hits, id) ==
    IF hits = <<>> THEN 0
    ELSE (IF DocId(Head(hits)[1]) = id THEN Max2(0, 10 - Head(hits)[2]) ELSE 0)
         + SumSim(Tail(hits), id)

\* the similarity of the last main-query result with this prefix
LastMainSim(hits, id) ==
    LET i == CHOOSE i \in 1..Len(hits) :
                 /\ DocId(hits[i][1]) = id
                 /\ \A j \in (i + 1)..Len(hits) : DocId(hits[j][1]) # id
    IN  Max2(0, 10 - hits[i][2])

PerQueryWeight ==
    (ret.sub_weight * ScoreDen)
        \div Max2(1, Cardinality({i \in 1..Len(ret.sub_queries) :
                                      Strip(ret.sub_queries[i]) # <<>>}))

C4_AdditiveMerge ==
    (PriorityReturned /\ ret.out.path = "fusion") =>
        \A n \in 1..Len(ret.out.doc_scores) :
            LET e == ret.out.doc_scores[n]
            IN  e.doc_id \in HitIds(ret.out.main_docs_with_scores) =>
                  /\ e.main_score = LastMainSim(ret.out.main_docs_with_scores, e.doc_id)
                  /\ e.score = e.main_score * ret.main_weight * ScoreDen
                               + SumSim(ret.out.sub_docs_with_scores, e.doc_id)
                                 * PerQueryWeight

\* a document found once by the main query and once by a sub-query, both with
\* a positive similarity
C4_Witness ==
    /\ PriorityReturned
    /\ ret.out.path = "fusion"
    /\ \E n \in 1..Len(ret.out.doc_scores) :
         LET e == ret.out.doc_scores[n]
         IN  /\ e.main_score > 0
             /\ e.sub_score > 0
             /\ Cardinality({i \in 1..Len(ret.out.main_docs_with_scores) :
                   DocId(ret.out.main_docs_with_scores[i][1]) = e.doc_id}) = 1
             /\ Cardinality({i \in 1..Len(ret.out.sub_docs_with_scores) :
                   DocId(ret.out.sub_docs_with_scores[i][1]) = e.doc_id}) = 1
             /\ e.score = e.main_score * ret.main_weight * ScoreDen + e.sub_score

\* C5: when the service raises on the over-fetching main query, the call does
\* not raise: it returns what a plain search for main_query and k returns, and
\* the empty list when that plain search fails too.
C5_Fallback ==
    (PriorityReturned /\ ret.out.path = "fallback") =>
        /\ ~ret.out.raised
        /\ ret.out.basic \in {"searched", "failed", "cache_hit"}
        /\ ret.out.basic = "searched" =>
              ret.out.result = similarity_search(store, ret.main_query, ret.k)
        /\ ret.out.basic = "failed" => ret.out.result = <<>>
        /\ ret.out.basic = "cache_hit" =>
              ret.out.result = search_cache[<<"basic", ret.main_query, ret.k>>]

\* the main query failed and the plain search answered with documents
C5_Witness ==
    /\ PriorityReturned
    /\ ret.out.path = "fallback"
    /\ ret.out.basic = "searched"
    /\ ret.out.result # <<>>
    /\ ~ret.out.raised

\* C6: a failure on sub-queries does not abort the fusion: the call returns
\* the ranking fused from the main-query results and the results of every
\* sub-query that succeeded, and the plain search of the fallback is not made.
SucceededSubs ==
    {i \in 1..Len(ret.sub_queries) :
        Strip(ret.sub_queries[i]) # <<>> /\ i \notin ret.out.sub_failed}

RECURSIVE SucceededHits(_)
SucceededHits(i) ==
    IF i > Len(ret.sub_queries) THEN <<>>
    ELSE (IF i \in SucceededSubs
          THEN similarity_search_with_score(store, ret.sub_queries[i], ret.k * 2)
          ELSE <<>>) \o SucceededHits(i + 1)

C6_PartialFailure ==
    (PriorityReturned /\ ret.out.sub_failed # {}) =>
        /\ ~ret.out.raised
        /\ ret.out.path = "fusion"
        /\ ret.out.basic = "none"
        /\ ret.out.main_docs_with_scores =
              similarity_search_with_score(store, ret.main_query, ret.k * 3)
        /\ ret.out.sub_docs_with_scores = SucceededHits(1)
        /\ LET fused == ApplySub(ApplyMain(<<>>, ret.out.main_docs_with_scores,
                                            ret.main_weight),
                                  SucceededHits(1), PerQueryWeight)
               top == TopK(fused, ret.k)
           IN  ret.out.result = [i \in 1..Len(top) |-> top[i].doc]

\* one sub-query failed, another one succeeded and put a document of its own
\* into the returned list
C6_Witness ==
    /\ PriorityReturned
    /\ ret.out.path = "fusion"
    /\ ret.out.sub_failed # {}
    /\ SucceededSubs # {}
    /\ \E i \in 1..Len(ret.out.result) :
          /\ DocId(ret.out.result[i]) \notin HitIds(ret.out.main_docs_with_scores)
          /\ DocId(ret.out.result[i]) \in HitIds(ret.out.sub_docs_with_scores)

\* the distances the service gave for the documents of this prefix
HitDistances(hits, id) == {hits[i][2] : i \in {j \in 1..Len(hits) : DocId(hits[j][1]) = id}}

AllHits == ret.out.main_docs_with_scores \o ret.out.sub_docs_with_scores

\* C13: with non-negative weights every candidate of a fusion has a fused
\* score, a main component and a sub component that are >= 0, and a candidate
\* whose every hit has a distance greater than 1 has all three equal to 0.
C13_NonNegative ==
    (/\ PriorityReturned
     /\ ret.out.path = "fusion"
     /\ ret.main_weight >= 0 /\ ret.sub_weight >= 0) =>
        \A n \in 1..Len(ret.out.doc_scores) :
            /\ ret.out.doc_scores[n].score >= 0
            /\ ret.out.doc_scores[n].main_score >= 0
            /\ ret.out.doc_scores[n].sub_score >= 0
            /\ (\A d \in HitDistances(AllHits, ret.out.doc_scores[n].doc_id) : d > 10) =>
                  /\ ret.out.doc_scores[n].score = 0
                  /\ ret.out.doc_scores[n].main_score = 0
                  /\ ret.out.doc_scores[n].sub_score = 0

\* a candidate found by the main query and by a sub-query, each time beyond
\* distance 1, with score 0
C13_Witness ==
    /\ PriorityReturned
    /\ ret.out.path = "fusion"
    /\ \E n \in 1..Len(ret.out.doc_scores) :
          /\ HitDistances(ret.out.main_docs_with_scores, ret.out.doc_scores[n].doc_id) # {}
          /\ HitDistances(ret.out.sub_docs_with_scores, ret.out.doc_scores[n].doc_id) # {}
          /\ \A d \in HitDistances(AllHits, ret.out.doc_scores[n].doc_id) : d > 10
          /\ ret.out.doc_scores[n].score = 0

\* the candidate of a returned document, and its place in doc_scores
EntryAt(doc) == DictIndex(ret.out.doc_scores, DocId(doc))
ScoreOf(doc) == ret.out.doc_scores[EntryAt(doc)].score

\* the places in doc_scores of the candidates that are not returned
NotReturned ==
    {n \in 1..Len(ret.out.doc_scores) :
        \A i \in 1..Len(ret.out.result) : EntryAt(ret.out.result[i]) # n}

FoundByMain(n) == ret.out.doc_scores[n].doc_id \in HitIds(ret.out.main_docs_with_scores)

\* C14: on the fusion path the returned documents are in non-increasing order
\* of fused score and equally scored candidates keep their insertion order,
\* among the returned ones and against the ones cut off: a candidate found by
\* the main query is never behind an equally scored one found by sub-queries only.
C14_StableDescending ==
    (PriorityReturned /\ ret.out.path = "fusion") =>
        /\ \A i, j \in 1..Len(ret.out.result) :
              i < j =>
                /\ ScoreOf(ret.out.result[i]) >= ScoreOf(ret.out.result[j])
                /\ ScoreOf(ret.out.result[i]) = ScoreOf(ret.out.result[j]) =>
                      EntryAt(ret.out.result[i]) < EntryAt(ret.out.result[j])
                /\ ~(/\ ScoreOf(ret.out.result[i]) = ScoreOf(ret.out.result[j])
                     /\ FoundByMain(EntryAt(ret.out.result[j]))
                     /\ ~FoundByMain(EntryAt(ret.out.result[i])))
        /\ \A i \in 1..Len(ret.out.result) : \A n \in NotReturned :
                /\ ScoreOf(ret.out.result[i]) >= ret.out.doc_scores[n].score
                /\ ScoreOf(ret.out.result[i]) = ret.out.doc_scores[n].score =>
                      EntryAt(ret.out.result[i]) < n
                /\ ~(/\ ScoreOf(ret.out.result[i]) = ret.out.doc_scores[n].score
                     /\ FoundByMain(n)
                     /\ ~FoundByMain(EntryAt(ret.out.result[i])))

\* a document of the main query is returned and a document that only a
\* sub-query found, with the same positive score, is not
C14_Witness ==
    /\ PriorityReturned
    /\ ret.out.path = "fusion"
    /\ Len(ret.out.result) = ret.k
    /\ \E n \in NotReturned :
          /\ ~FoundByMain(n)
          /\ ret.out.doc_scores[n].score > 0
          /\ ret.out.doc_scores[n].score = ScoreOf(ret.out.result[Len(ret.out.result)])
          /\ FoundByMain(EntryAt(ret.out.result[Len(ret.out.result)]))

\* C18 as stated: a call makes at most 1 + len(sub_queries) calls into the
\* search service, on every path
C18_Original ==
    PriorityReturned => ret.out.calls <= 1 + Len(ret.sub_queries)

\* C18: a call makes no service call on a cache hit, one call for the main
\* query and one for each non-blank sub-query on the fusion path, and on the
\* fallback path the failed main query and at most the one plain search: at
\* most 1 + len(sub_queries) calls but on the fallback path, where they are
\* at most 2.
C18_CallBound ==
    PriorityReturned =>
        /\ ret.out.path = "cache_hit" => ret.out.calls = 0
        /\ ret.out.path = "fusion" =>
              /\ ret.out.calls = 1 + NonBlankCount(ret.sub_queries)
              /\ ret.out.calls <= 1 + Len(ret.sub_queries)
        /\ ret.out.path = "fallback" =>
              /\ ret.out.calls = IF ret.out.basic = "cache_hit" THEN 1 ELSE 2
              /\ ret.out.calls <= Max2(2, 1 + Len(ret.sub_queries))

\* no sub-queries, the main query fails and the plain search is made: two calls
C18_Witness ==
    /\ PriorityReturned
    /\ ret.sub_queries = <<>>
    /\ ret.out.path = "fallback"
    /\ ret.out.basic = "searched"
    /\ ret.out.calls = 2

\* C19: after any sequence of search_basic, search_with_priority_weighting,
\* add_documents and clear_cache calls the cache holds at most
\* _cache_max_size entries (100 in the source).
C19_CacheBounded == Cardinality(DOMAIN search_cache) <= cache_max_size

\* a fusion has returned a list whose key is not in the cache, which is full
C19_Witness ==
    /\ PriorityReturned
    /\ ret.out.path = "fusion"
    /\ PriorityKey(ret.main_query, ret.sub_queries, ret.k) \notin DOMAIN search_cache
    /\ Cardinality(DOMAIN search_cache) = cache_max_size

\* C20: the cache is keyed by the query text and the parameters of the call:
\* a cached result is returned only to a call whose main_query, sub_queries,
\* main_weight, sub_weight and k equal those of the call that stored it.
C20_KeyedByParameters ==
    (PriorityReturned /\ ret.out.path = "cache_hit") =>
        LET by == stored_by[PriorityKey(ret.main_query, ret.sub_queries, ret.k)]
        IN  /\ by.op = "priority"
            /\ by.main_query = ret.main_query
            /\ by.sub_queries = ret.sub_queries
            /\ by.main_weight = ret.main_weight
            /\ by.sub_weight = ret.sub_weight
            /\ by.k = ret.k

\* sub_weight as a score: the sub component of a candidate that one query
\* after the other finds with similarity 1.0
SubWeightCap == 10 * ret.sub_weight * ScoreDen

\* C21: for non-negative weights the sub component accumulated on a candidate
\* of a fusion never exceeds sub_weight, whatever the sub-queries return,
\* several results of one sub-query with the same 100-character prefix included.
C21_SubCapped ==
    (/\ PriorityReturned
     /\ ret.out.path = "fusion"
     /\ ret.main_weight >= 0 /\ ret.sub_weight >= 0) =>
        \A n \in 1..Len(ret.out.doc_scores) :
            ret.out.doc_scores[n].sub_score <= SubWeightCap

\* no two documents of the returned list have the same 100-character prefix
OnePerPrefix ==
    \A i, j \in 1..Len(ret.out.result) :
        DocId(ret.out.result[i]) = DocId(ret.out.result[j]) => i = j

\* C22 as stated: the returned list never holds two documents with the same
\* 100-character prefix, on every path
C22_Original == PriorityReturned => OnePerPrefix

\* C22: the list returned by the fusion, or found in the cache under the key
\* of the call, never holds two documents with the same 100-character prefix;
\* the list of the fallback path is the list of the plain search as it is.
C22_OnePerPrefix ==
    PriorityReturned =>
        /\ ret.out.path \in {"fusion", "cache_hit"} => OnePerPrefix
        /\ (ret.out.path = "fallback" /\ ret.out.basic = "searched") =>
              ret.out.result = similarity_search(store, ret.main_query, ret.k)

\* the main query found two documents with the same prefix, a sub-query found
\* them again, and the fusion returned k = 2 documents of different prefixes
C22_Witness ==
    /\ PriorityReturned
    /\ ret.out.path = "fusion"
    /\ ~DistinctPrefixes(ret.out.main_docs_with_scores)
    /\ ~DistinctPrefixes(ret.out.sub_docs_with_scores)
    /\ Len(ret.out.result) = 2
    /\ OnePerPrefix

-----------------------------------------------------------------------------
(* CheeUVectorDB.calculate_search_confidence                                 *)

\* str.lower(), on the letters of the model
LowerChar(c) == CASE c = "S" -> "s" [] c = "T" -> "t" [] OTHER -> c
Lower(s) == [i \in 1..Len(s) |-> LowerChar(s[i])]

\* a confidence is counted in units of 1 / ConfDen
KwDen == LcmUpTo(MaxKeywords)
DocDen == LcmUpTo(Max2(MaxDocs, 3))
ConfDen == 100 * KwDen * DocDen

\* total_keywords = len(keywords) if keywords else 1
TotalKeywords(keywords) == IF keywords # <<>> THEN Len(keywords) ELSE 1

\* a match that compares the keyword as it is written
DocKeywordMatches_CaseSensitive(doc, keywords) ==
    Cardinality({i \in 1..Len(keywords) :
                    Truthy(keywords[i]) /\ keywords[i] \in doc.words})

\* the count of: if keyword and keyword.lower() in content
DocKeywordMatches(doc, keywords) ==
    Cardinality({i \in 1..Len(keywords) :
                    Truthy(keywords[i]) /\ Lower(keywords[i]) \in doc.words})

\* length, metadata and context scores of one document, in hundredths
QualityScore(doc) ==
    (IF 100 <= doc.length /\ doc.length <= 1000 THEN 20
     ELSE IF 50 <= doc.length /\ doc.length <= 1500 THEN 10 ELSE 0)
    + (IF doc.filename # "" THEN 10 ELSE 0)
    + (IF doc.source = "research_paper" THEN 5 ELSE 0)
    + (IF doc.periods >= 3 THEN 15 ELSE IF doc.periods >= 1 THEN 8 ELSE 0)

\* a score that gives an empty keyword list the full keyword term
DocScore_EmptyFull(doc, keywords) ==
    (IF keywords = <<>> THEN 50 * KwDen
     ELSE (DocKeywordMatches(doc, keywords) * 50 * KwDen) \div TotalKeywords(keywords))
    + QualityScore(doc) * KwDen

\* doc_score of one document, in units of 1 / (100 * KwDen)
DocScore(doc, keywords) ==
    (DocKeywordMatches(doc, keywords) * 50 * KwDen) \div TotalKeywords(keywords)
    + QualityScore(doc) * KwDen

\* total_score after the loop over docs
RECURSIVE TotalScore(_, _)
TotalScore(docs, keywords) ==
    IF docs = <<>> THEN 0
    ELSE DocScore(Head(docs), keywords) + TotalScore(Tail(docs), keywords)

\* avg_score + doc_count_bonus, in units of 1 / ConfDen
AvgPlusBonus(docs, keywords) ==
    LET avg_score == (TotalScore(docs, keywords) * DocDen) \div Len(docs)
        doc_count_bonus == (Min2(Len(docs), 3) * 10 * KwDen * DocDen) \div 3
    IN  avg_score + doc_count_bonus

\* a final value that is not clamped
FinalConfidence_NoClamp(sum) == sum

\* final_confidence = min(avg_score + doc_count_bonus, 1.0)
FinalConfidence(sum) == Min2(sum, ConfDen)

\* a scorer that gives an empty result the confidence of the fallback capsule
calculate_search_confidence_EmptyDefault(docs, keywords) ==
    IF docs = <<>> THEN (30 * ConfDen) \div 100
    ELSE FinalConfidence(AvgPlusBonus(docs, keywords))

calculate_search_confidence(docs, keywords) ==
    IF docs = <<>> THEN 0
    ELSE FinalConfidence(AvgPlusBonus(docs, keywords))

(* The scorer on its own: every document list and keyword list of the bounds *)

\* the best document, and documents that differ from it in one respect
BestDoc == [head |-> "D", tail |-> "x", length |-> 500, periods |-> 3,
            words |-> {<<"s">>, <<"t">>}, filename |-> "d.pdf",
            source |-> "research_paper"]

ScoreDocs ==
    {BestDoc}
    \cup {[BestDoc EXCEPT !.length = l] : l \in {49, 50, 99, 100, 1000, 1001, 1500, 1501}}
    \cup {[BestDoc EXCEPT !.periods = n] : n \in {0, 1, 2}}
    \cup {[BestDoc EXCEPT !.words = w] : w \in {{}, {<<"s">>}}}
    \cup {[BestDoc EXCEPT !.filename = ""], [BestDoc EXCEPT !.source = "web"]}
    \cup {[BestDoc EXCEPT !.length = 10, !.periods = 0, !.words = {},
                          !.filename = "", !.source = ""]}

KeywordStrings == {<<"s">>, <<"T">>, <<>>}
KeywordLists == SeqsUpTo(KeywordStrings, MaxKeywords)

InitConf ==
    /\ store = {}
    /\ search_cache = EmptyCache
    /\ stored_by = EmptyCache
    /\ ret = Idle
    /\ conf_docs \in SeqsUpTo(ScoreDocs, MaxDocs)
    /\ conf_keywords \in KeywordLists
    /\ conf_result = -1
    /\ conf_prev = NoPrev
    /\ ChatIdle

\* the caller runs calculate_search_confidence to its return
CallConfidence ==
    /\ conf_result = -1
    /\ conf_result' = calculate_search_confidence(conf_docs, conf_keywords)
    /\ UNCHANGED <<vdb_vars, conf_docs, conf_keywords, conf_prev, chat_vars>>

\* after a call has returned the caller scores the same documents again,
\* with no keywords
CallWithoutKeywords ==
    /\ conf_result # -1
    /\ conf_prev = NoPrev
    /\ conf_prev' = [keywords |-> conf_keywords, result |-> conf_result]
    /\ conf_keywords' = <<>>
    /\ conf_result' = calculate_search_confidence(conf_docs, <<>>)
    /\ UNCHANGED <<vdb_vars, conf_docs, chat_vars>>

\* after a call has returned the caller scores the same documents again,
\* with one keyword added to the list
CallAddKeyword ==
    /\ conf_result # -1
    /\ conf_prev = NoPrev
    /\ Len(conf_keywords) < MaxKeywords
    /\ \E keyword \in KeywordStrings :
           /\ conf_prev' = [keywords |-> conf_keywords, result |-> conf_result]
           /\ conf_keywords' = Append(conf_keywords, keyword)
           /\ conf_result' = calculate_search_confidence(
                                  conf_docs, Append(conf_keywords, keyword))
    /\ UNCHANGED <<vdb_vars, conf_docs, chat_vars>>

NextConf == CallConfidence \/ CallWithoutKeywords \/ CallAddKeyword

SpecConf == InitConf /\ [][NextConf]_vars

ConfReturned == conf_result # -1

\* C9: calculate_search_confidence returns exactly 0.0 for an empty document
\* list, whatever the keyword list.
C9_EmptyDocsZero ==
    (ConfReturned /\ conf_docs = <<>>) => conf_result = 0

\* no documents, two keywords, and the value 0.0 returned
C9_Witness ==
    /\ ConfReturned
    /\ conf_docs = <<>>
    /\ Len(conf_keywords) = 2
    /\ conf_result = 0

\* C10: for every document list and keyword list (empty, with empty strings,
\* with duplicates) calculate_search_confidence returns a value in [0.0, 1.0].
C10_InUnitInterval ==
    ConfReturned => (0 <= conf_result /\ conf_result <= ConfDen)

\* a duplicated keyword, documents whose scores and bonus add up to more than
\* 1.0, and the value 1.0 returned
C10_Witness ==
    /\ ConfReturned
    /\ Len(conf_keywords) = 2
    /\ conf_keywords[1] = conf_keywords[2]
    /\ conf_docs # <<>>
    /\ AvgPlusBonus(conf_docs, conf_keywords) > ConfDen
    /\ conf_result = ConfDen

\* the keyword is in page_content.lower() of the document
AppearsIn(keyword, doc) == Truthy(keyword) /\ Lower(keyword) \in doc.words

\* every keyword of the list appears in at least one of the documents
AllAppear(keywords, docs) ==
    \A i \in 1..Len(keywords) : \E j \in 1..Len(docs) : AppearsIn(keywords[i], docs[j])

\* the documents have been scored twice, the second time with no keywords
ScoredWithout == conf_prev # NoPrev /\ conf_keywords = <<>> /\ conf_docs # <<>>

\* C11: for a non-empty document list the score with no keywords is the same
\* at every call and is at most the score with any keyword list whose keywords
\* appear in the documents.
C11_EmptyKeywordsLeast ==
    ScoredWithout =>
        /\ conf_prev.keywords = <<>> => conf_result = conf_prev.result
        /\ AllAppear(conf_prev.keywords, conf_docs) => conf_result <= conf_prev.result

\* two keywords that appear in the documents gave more than no keywords
C11_Witness ==
    /\ ScoredWithout
    /\ Len(conf_prev.keywords) = 2
    /\ AllAppear(conf_prev.keywords, conf_docs)
    /\ conf_result < conf_prev.result

\* the documents have been scored twice, the second time with one more keyword
ScoredWithAdded ==
    /\ conf_prev # NoPrev
    /\ conf_docs # <<>>
    /\ Len(conf_keywords) = Len(conf_prev.keywords) + 1
    /\ SubSeq(conf_keywords, 1, Len(conf_prev.keywords)) = conf_prev.keywords

AddedKeyword == conf_keywords[Len(conf_keywords)]

\* C12 as stated: a keyword that appears in some document is added and the
\* confidence does not decrease
C12_Original ==
    (ScoredWithAdded /\ \E j \in 1..Len(conf_docs) : AppearsIn(AddedKeyword, conf_docs[j]))
        => conf_result >= conf_prev.result

\* C12: adding to the keyword list a keyword that appears in every one of the
\* documents never decreases the confidence of the same document list.
C12_AddedInEveryDoc ==
    (ScoredWithAdded /\ \A j \in 1..Len(conf_docs) : AppearsIn(AddedKeyword, conf_docs[j]))
        => conf_result >= conf_prev.result

\* a keyword written in upper case is added to a list with a keyword that
\* does not match, it appears in both documents, and the confidence grows
C12_Witness ==
    /\ ScoredWithAdded
    /\ Len(conf_docs) = 2
    /\ conf_prev.keywords = << <<>> >>
    /\ AddedKeyword = <<"T">>
    /\ \A j \in 1..Len(conf_docs) : AppearsIn(AddedKeyword, conf_docs[j])
    /\ conf_result > conf_prev.result

-----------------------------------------------------------------------------
(* models.py: stress types, user profile, keyword tables.  A text is a       *)
(* sequence of symbols; a word of the tables is one symbol.                  *)

None == <<"None">>

\* not x, for a text or None
IsFalsy(x) == x = None \/ x = <<>>

\* StressType: a member stands for its value
StressTypes == {"XXX", "OXX", "XOX", "XXO", "OOX", "OXO", "XOO", "OOO"}

\* STRESS_TYPE_PROFILES[stress_type].therapy_methods
STRESS_TYPE_PROFILES(stress_type) ==
    CASE stress_type = "XXX" -> <<"MBSR">>
      [] stress_type = "OXX" -> <<"PPT", "MBSR">>
      [] stress_type = "XOX" -> <<"ACT", "MBSR">>
      [] stress_type = "XXO" -> <<"ACT", "CBT">>
      [] stress_type = "OOX" -> <<"PPT", "ACT", "CBT">>
      [] stress_type = "OXO" -> <<"PPT", "ACT">>
      [] stress_type = "XOO" -> <<"ACT", "CBT">>
      [] stress_type = "OOO" -> <<"PPT", "ACT", "DBT">>

\* the UserProfile dataclass; class tells a UserProfile from None and from an
\* object of another type
UserProfile(nickname, age, gender, occupation, stress_type, personal_keywords) ==
    [class |-> "UserProfile", nickname |-> nickname, age |-> age,
     gender |-> gender, occupation |-> occupation, stress_type |-> stress_type,
     personal_keywords |-> personal_keywords]

NoneProfile == [UserProfile(None, 0, None, None, "XXX", <<>>) EXCEPT !.class = "None"]
DictProfile == [UserProfile(None, 0, None, None, "XXX", <<>>) EXCEPT !.class = "dict"]

\* UserProfile.get_age_group
get_age_group(age) ==
    IF age < 20 THEN <<"10s">>
    ELSE IF age < 30 THEN <<"20s">>
    ELSE IF age < 40 THEN <<"30s">>
    ELSE IF age < 50 THEN <<"40s">>
    ELSE IF age < 60 THEN <<"50s">>
    ELSE <<"60s+">>

\* OCCUPATION_KEYWORDS.get(occupation, []): the rows "IT" and "etc" of the table
OCCUPATION_KEYWORDS(occupation) ==
    CASE occupation = <<"IT">> ->
            << <<"overtime">>, <<"deadline">>, <<"tech_change">>, <<"project">>, <<"bug">> >>
      [] occupation = <<"etc">> ->
            << <<"work_stress">>, <<"work">>, <<"stress">> >>
      [] OTHER -> <<>>

\* PERSONA_KEYWORDS: its one persona, nickname "Lee" with occupation "ITdev"
PersonaKeys == {<<"Lee", "_", "ITdev">>}
PERSONA_KEYWORDS(persona_key) ==
    [stress_keywords |-> << <<"anxiety">>, <<"work_stress">>, <<"sleep_loss">> >>,
     lifestyle_keywords |-> << <<"overtime">>, <<"irregular_life">>, <<"coffee">> >>,
     personality_keywords |-> << <<"passion">>, <<"responsibility">> >>,
     therapy_focus |-> << <<"present_awareness">>, <<"acceptance">>, <<"value_action">> >>]

\* " ".join(l)
RECURSIVE Join(_)
Join(l) ==
    IF l = <<>> THEN <<>>
    ELSE IF Len(l) = 1 THEN l[1]
    ELSE l[1] \o <<" ">> \o Join(Tail(l))

\* a filter that keeps the entries as they are written
RECURSIVE StripFilter_NoStrip(_)
StripFilter_NoStrip(l) ==
    IF l = <<>> THEN <<>>
    ELSE (IF ~IsFalsy(Head(l)) /\ ~IsFalsy(Strip(Head(l))) THEN <<Head(l)>> ELSE <<>>)
         \o StripFilter_NoStrip(Tail(l))

\* [q.strip() for q in sub_queries if q and q.strip()]
RECURSIVE StripFilter(_)
StripFilter(l) ==
    IF l = <<>> THEN <<>>
    ELSE LET q == Head(l)
         IN  (IF ~IsFalsy(q) /\ ~IsFalsy(Strip(q)) THEN <<Strip(q)>> ELSE <<>>)
             \o StripFilter(Tail(l))

\* the sub-queries generate_healing_message builds from the profile
ProfileSubQueries(user_profile) ==
    LET first == <<get_age_group(user_profile.age), user_profile.gender,
                   user_profile.occupation,
                   IF user_profile.personal_keywords # <<>>
                   THEN Join(user_profile.personal_keywords) ELSE <<>> >>
        occupation_keywords == OCCUPATION_KEYWORDS(user_profile.occupation)
        persona_key == user_profile.nickname \o <<"_">> \o user_profile.occupation
        persona ==
            IF persona_key \in PersonaKeys
            THEN Head_(PERSONA_KEYWORDS(persona_key).stress_keywords, 2)
                 \o Head_(PERSONA_KEYWORDS(persona_key).lifestyle_keywords, 2)
                 \o Head_(PERSONA_KEYWORDS(persona_key).therapy_focus, 2)
            ELSE <<>>
    IN  StripFilter(first \o Head_(occupation_keywords, 3) \o persona)

\* main_query = f"{user_input.strip()} {user_profile.stress_type.value}"
ProfileMainQuery(user_input, user_profile) ==
    Strip(user_input) \o <<" ", user_profile.stress_type>>

\* code = ""; code += "O" if depression else "X"; ... for the three flags
StressCode(depression, anxiety, work_stress) ==
    <<IF depression THEN "O" ELSE "X", IF anxiety THEN "O" ELSE "X",
      IF work_stress THEN "O" ELSE "X">>

\* the dict stress_type_mapping of determine_stress_type
stress_type_mapping ==
    (<<"X", "X", "X">> :> "XXX") @@ (<<"O", "X", "X">> :> "OXX")
    @@ (<<"X", "O", "X">> :> "XOX") @@ (<<"X", "X", "O">> :> "XXO")
    @@ (<<"O", "O", "X">> :> "OOX") @@ (<<"O", "X", "O">> :> "OXO")
    @@ (<<"X", "O", "O">> :> "XOO") @@ (<<"O", "O", "O">> :> "OOO")

\* the dict stress_type_mapping of get_stress_type_info
info_stress_type_mapping ==
    (<<"X", "X", "X">> :> "XXX") @@ (<<"O", "X", "X">> :> "OXX")
    @@ (<<"X", "O", "X">> :> "XOX") @@ (<<"X", "X", "O">> :> "XXO")
    @@ (<<"O", "O", "X">> :> "OOX") @@ (<<"O", "X", "O">> :> "OXO")
    @@ (<<"X", "O", "O">> :> "XOO") @@ (<<"O", "O", "O">> :> "OOO")

\* the dict stress_type_mapping of create_user_profile_simple
simple_stress_type_mapping ==
    (<<"X", "X", "X">> :> "XXX") @@ (<<"O", "X", "X">> :> "OXX")
    @@ (<<"X", "O", "X">> :> "XOX") @@ (<<"X", "X", "O">> :> "XXO")
    @@ (<<"O", "O", "X">> :> "OOX") @@ (<<"O", "X", "O">> :> "OXO")
    @@ (<<"X", "O", "O">> :> "XOO") @@ (<<"O", "O", "O">> :> "OOO")

\* mapping.get(code, StressType.XXX)
MappingGet(mapping, code) == IF code \in DOMAIN mapping THEN mapping[code] ELSE "XXX"

\* a classification that reads the depression flag only
determine_stress_type_DepressionOnly(depression, anxiety, work_stress) ==
    MappingGet(stress_type_mapping, StressCode(depression, FALSE, FALSE))

\* CheeURagPipeline.determine_stress_type
determine_stress_type(depression, anxiety, work_stress) ==
    MappingGet(stress_type_mapping, StressCode(depression, anxiety, work_stress))

\* api.get_stress_type_info: the entries success, stress_type, stress_code and
\* the therapy methods of the character
get_stress_type_info(depression, anxiety, work_stress) ==
    [success |-> TRUE,
     stress_type |-> MappingGet(info_stress_type_mapping,
                                StressCode(depression, anxiety, work_stress)),
     stress_code |-> StressCode(depression, anxiety, work_stress),
     therapy_methods |->
         STRESS_TYPE_PROFILES(MappingGet(info_stress_type_mapping,
                                         StressCode(depression, anxiety, work_stress)))]

\* api.create_user_profile_simple
create_user_profile_simple(nickname, age, gender, occupation, depression, anxiety, work_stress, personal_keywords) ==
    UserProfile(nickname, age, gender, occupation,
                MappingGet(simple_stress_type_mapping,
                           StressCode(depression, anxiety, work_stress)),
                personal_keywords)

\* CheeURagPipeline.create_user_profile
create_user_profile(nickname, age, gender, occupation, stress_type, survey_keywords) ==
    UserProfile(nickname, age, gender, occupation, stress_type, survey_keywords)

-----------------------------------------------------------------------------
(* chatbot.py: CheeUChatbot.generate_healing_message                         *)

max_retries == 3

\* an exception: its type and str(e)
Exc(type, text) == [type |-> type, text |-> text]
NoExc == Exc("", None)

EmptyInputError == Exc("ValueError", <<"user input is empty">>)
InvalidProfileError == Exc("ValueError", <<"user profile is not valid">>)
NoNicknameError == Exc("AttributeError", <<"object has no attribute 'nickname'">>)
EmptyResponseError == Exc("ValueError", <<"LLM response is empty">>)
NotAProfileError == Exc("ValueError", <<"a UserProfile object is needed">>)
\* what the services raise: the text is theirs
LLMError == Exc("APIError", <<"raw LLM error">>)
SearchError == Exc("ChromaError", <<"raw search error">>)
ConstructError == Exc("ValueError", <<"OpenAI API key is not set">>)

\* llm.predict: the response of an attempt that does not raise
LLMResponse(outcome) == IF outcome = "text" THEN <<" ", "r", " ">> ELSE <<" ">>

\* for attempt in range(self.max_retries): the attempts from `attempt` on
\* (0-based) of a chatbot built with max_retries = retries; outcomes[i] is what
\* the i-th call of llm.predict does, trace what the calls made have done
RECURSIVE LLMLoop(_, _, _, _)
LLMLoop(attempt, outcomes, response, retries) ==
    IF attempt >= retries
    THEN [raised |-> FALSE, exc |-> NoExc, response |-> response, calls |-> attempt,
          trace |-> SubSeq(outcomes, 1, attempt)]
    ELSE IF outcomes[attempt + 1] = "raise"
    THEN IF attempt < retries - 1
         THEN LLMLoop(attempt + 1, outcomes, response, retries)
         ELSE [raised |-> TRUE, exc |-> LLMError, response |-> response,
               calls |-> attempt + 1, trace |-> SubSeq(outcomes, 1, attempt + 1)]
    ELSE LET r == LLMResponse(outcomes[attempt + 1])
         IN  IF ~IsFalsy(r) /\ ~IsFalsy(Strip(r))
             THEN [raised |-> FALSE, exc |-> NoExc, response |-> r,
                   calls |-> attempt + 1, trace |-> SubSeq(outcomes, 1, attempt + 1)]
             ELSE LLMLoop(attempt + 1, outcomes, r, retries)

\* the CheeUCapsule dataclass (the timestamp is a fixed text)
CheeUCapsule(success, healing_message, character, stress_type, therapy_methods_used, sources, keywords_used, confidence_score, fallback, error) ==
    [success |-> success, healing_message |-> healing_message,
     character |-> character, stress_type |-> stress_type,
     therapy_methods_used |-> therapy_methods_used, sources |-> sources,
     keywords_used |-> keywords_used, confidence_score |-> confidence_score,
     timestamp |-> "2024-01-01T00:00:00", fallback |-> fallback, error |-> error]

\* no capsule: the call raised, or returned a dict without one
NoCapsule ==
    CheeUCapsule(FALSE, None, None, "", <<>>, <<>>, <<>>, -1, FALSE, None)

ErrorCapsuleMessage == <<"the capsule cannot be made because of a system error, try again later">>
PipelineErrorMessage == <<"the healing message cannot be made because of a system error">>
FallbackMessage(stress_type) == <<stress_type, "fallback capsule message">>

\* an error capsule that tells the error in its message
generate_error_capsule_InMessage(user_profile, user_input, error) ==
    CheeUCapsule(FALSE, ErrorCapsuleMessage \o error, <<"CheeU">>, "error",
                 <<>>, <<>>, <<>>, 0, TRUE, error)

\* CheeUChatbot._generate_error_capsule
generate_error_capsule(user_profile, user_input, error) ==
    CheeUCapsule(FALSE, ErrorCapsuleMessage, <<"CheeU">>, "error",
                 <<>>, <<>>, <<>>, 0, TRUE, error)

\* a fallback capsule that does not say it is one
generate_fallback_capsule_NotFlagged(user_profile, user_input) ==
    CheeUCapsule(TRUE, FallbackMessage(user_profile.stress_type),
                 <<user_profile.stress_type, "CheeU">>, user_profile.stress_type,
                 <<>>, <<>>, user_profile.personal_keywords,
                 (30 * ConfDen) \div 100, FALSE, None)

\* CheeUChatbot._generate_fallback_capsule (confidence 0.3)
generate_fallback_capsule(user_profile, user_input) ==
    IF user_profile.stress_type \notin StressTypes
    THEN generate_error_capsule(user_profile, user_input,
                                <<"the stress type is not found">>)
    ELSE CheeUCapsule(TRUE, FallbackMessage(user_profile.stress_type),
                      <<user_profile.stress_type, "CheeU">>,
                      user_profile.stress_type,
                      STRESS_TYPE_PROFILES(user_profile.stress_type), <<>>,
                      user_profile.personal_keywords, (30 * ConfDen) \div 100,
                      TRUE, None)

\* [doc.metadata.get('filename', 'Unknown') for doc in relevant_docs]; a
\* document of the model without a filename has no such key
Sources(docs) ==
    [i \in 1..Len(docs) |-> IF docs[i].filename = "" THEN "Unknown"
                            ELSE docs[i].filename]

\* What a healing-message call gives back: the capsule, or the exception that
\* left it (raised), with what the search did (search.called, search.failed: a
\* service call raised, search.sub_queries: the list it was given,
\* search.docs, search.cache: the cache it left) and what the language model
\* did (llm.calls, llm.raised: the last attempt raised, llm.trace: what each
\* call made has done).
NoSearch ==
    [called |-> FALSE, failed |-> FALSE, sub_queries |-> <<>>, docs |-> <<>>,
     cache |-> EmptyCache]
NoLLM == [calls |-> 0, raised |-> FALSE, trace |-> <<>>]

Raise(exc, search, llm) ==
    [raised |-> TRUE, exc |-> exc, capsule |-> NoCapsule, search |-> search,
     llm |-> llm]

Give(capsule, search, llm) ==
    [raised |-> FALSE, exc |-> NoExc, capsule |-> capsule, search |-> search,
     llm |-> llm]

\* self.vectordb.search_with_priority_weighting(main_query=main_query,
\* sub_queries=sub_queries, k=3), with the default weights 0.7 and 0.3.
\* f: the search-service calls that raise
ProfileSearch(S, cache, user_input, user_profile, f) ==
    search_with_priority_weighting(
        S, cache, ProfileMainQuery(user_input, user_profile),
        ProfileSubQueries(user_profile), 7, 3, 3, f.main, f.subs, f.basic)

\* an end of the try block that does not look at the response
ChatbotAnswered_NoBlankTest(user_profile, s, search, l) ==
    IF l.raised
    THEN Raise(l.exc, search, [calls |-> l.calls, raised |-> TRUE, trace |-> l.trace])
    ELSE Give(CheeUCapsule(
                  TRUE, IF l.response = None THEN <<>> ELSE Strip(l.response),
                  <<user_profile.stress_type, "CheeU">>,
                  user_profile.stress_type,
                  STRESS_TYPE_PROFILES(user_profile.stress_type),
                  Sources(s.result), user_profile.personal_keywords,
                  calculate_search_confidence(
                      s.result, user_profile.personal_keywords),
                  FALSE, None),
              search, [calls |-> l.calls, raised |-> FALSE, trace |-> l.trace])

\* the end of the try block: l is what the attempts of the language model gave
ChatbotAnswered(user_profile, s, search, l) ==
    IF l.raised
    THEN Raise(l.exc, search, [calls |-> l.calls, raised |-> TRUE, trace |-> l.trace])
    ELSE IF IsFalsy(l.response) \/ IsFalsy(Strip(l.response))
    THEN Raise(EmptyResponseError, search,
               [calls |-> l.calls, raised |-> FALSE, trace |-> l.trace])
    ELSE Give(CheeUCapsule(
                  TRUE, Strip(l.response),
                  <<user_profile.stress_type, "CheeU">>,
                  user_profile.stress_type,
                  STRESS_TYPE_PROFILES(user_profile.stress_type),
                  Sources(s.result), user_profile.personal_keywords,
                  calculate_search_confidence(
                      s.result, user_profile.personal_keywords),
                  FALSE, None),
              search, [calls |-> l.calls, raised |-> FALSE, trace |-> l.trace])

\* a chatbot that scores the documents first and gives the fallback capsule
\* when the confidence is below that of the fallback
ChatbotSearched_Gated(user_input, user_profile, s, search, outcomes, retries) ==
    IF s.raised THEN Raise(SearchError, search, NoLLM)
    ELSE IF \/ s.result = <<>>
            \/ calculate_search_confidence(s.result, user_profile.personal_keywords)
                  < (30 * ConfDen) \div 100
    THEN Give(generate_fallback_capsule(user_profile, user_input), search, NoLLM)
    ELSE ChatbotAnswered(user_profile, s, search, LLMLoop(0, outcomes, None, retries))

\* the try block from the search on: search is what the call did
ChatbotSearched(user_input, user_profile, s, search, outcomes, retries) ==
    IF s.raised THEN Raise(SearchError, search, NoLLM)
    ELSE IF s.result = <<>>
    THEN Give(generate_fallback_capsule(user_profile, user_input), search, NoLLM)
    ELSE ChatbotAnswered(user_profile, s, search, LLMLoop(0, outcomes, None, retries))

\* the try block of generate_healing_message.  s: what the search call of the
\* request gives (it is made only after the validation); outcomes: what the
\* calls of llm.predict do; retries: self.max_retries
ChatbotTry(user_input, user_profile, s, outcomes, retries) ==
    IF IsFalsy(user_input) \/ IsFalsy(Strip(user_input))
    THEN Raise(EmptyInputError, NoSearch, NoLLM)
    ELSE IF user_profile.class = "None"
    THEN Raise(InvalidProfileError, NoSearch, NoLLM)
    ELSE IF user_profile.class # "UserProfile"
    THEN Raise(NoNicknameError, NoSearch, NoLLM)
    ELSE IF IsFalsy(user_profile.nickname)
    THEN Raise(InvalidProfileError, NoSearch, NoLLM)
    ELSE ChatbotSearched(user_input, user_profile, s,
                         [called |-> TRUE,
                          failed |-> s.path = "fallback" \/ s.sub_failed # {},
                          sub_queries |-> ProfileSubQueries(user_profile),
                          docs |-> s.result, cache |-> s.cache],
                         outcomes, retries)

\* a handler that catches ValueError only
ChatbotExcept_ValueErrorOnly(user_profile, user_input, t) ==
    IF t.raised /\ t.exc.type = "ValueError"
    THEN Give(generate_error_capsule(user_profile, user_input, t.exc.text),
              t.search, t.llm)
    ELSE t

\* except Exception as e:
\*     return self._generate_error_capsule(user_profile, user_input, str(e))
\* t: how the try block ended
ChatbotExcept(user_profile, user_input, t) ==
    IF t.raised
    THEN Give(generate_error_capsule(user_profile, user_input, t.exc.text),
              t.search, t.llm)
    ELSE t

\* CheeUChatbot.generate_healing_message
chatbot_generate_healing_message(user_input, user_profile, s, outcomes, retries) ==
    ChatbotExcept(user_profile, user_input,
                  ChatbotTry(user_input, user_profile, s, outcomes, retries))

-----------------------------------------------------------------------------
(* pipeline.py and api.py: the layers above the chatbot                      *)

\* the try block of CheeURagPipeline.generate_healing_message; the chatbot of
\* a pipeline is built with the default max_retries
PipelineTry(user_input, user_profile, s, outcomes) ==
    IF IsFalsy(user_input) \/ IsFalsy(Strip(user_input))
    THEN Raise(EmptyInputError, NoSearch, NoLLM)
    ELSE IF user_profile.class # "UserProfile"
    THEN Raise(NotAProfileError, NoSearch, NoLLM)
    ELSE chatbot_generate_healing_message(user_input, user_profile, s, outcomes,
                                          max_retries)

\* the handler of CheeURagPipeline.generate_healing_message builds the error
\* capsule of the pipeline; t: how the try block ended
PipelineExcept(t) ==
    IF t.raised
    THEN Give(CheeUCapsule(FALSE, PipelineErrorMessage, <<"CheeU">>, "error",
                           <<>>, <<>>, <<>>, 0, TRUE, t.exc.text),
              t.search, t.llm)
    ELSE t

\* CheeURagPipeline.generate_healing_message
pipeline_generate_healing_message(user_input, user_profile, s, outcomes) ==
    PipelineExcept(PipelineTry(user_input, user_profile, s, outcomes))

\* The dict quick_healing_message returns: success, the capsule of "result"
\* (capsule.to_dict() keeps every field) and "error".
ApiDict(success, error) == [success |-> success, error |-> error]
NoDict == ApiDict(FALSE, None)

\* the profile quick_healing_message builds from its arguments
QuickProfile(a) ==
    create_user_profile(
        a.nickname, a.age, a.gender, a.occupation,
        determine_stress_type(a.depression, a.anxiety, a.work_stress),
        a.survey_keywords)

\* the return statements of quick_healing_message; t: what
\* pipeline.generate_healing_message gave
QuickReturn(t) ==
    IF t.raised
    THEN [out |-> Give(NoCapsule, t.search, t.llm),
          dict |-> ApiDict(FALSE, t.exc.text)]
    ELSE [out |-> t, dict |-> ApiDict(TRUE, None)]

\* api.quick_healing_message.  construct_fails: get_pipeline has to build the
\* pipeline and raises
quick_healing_message(construct_fails, user_input, a, s, outcomes) ==
    IF construct_fails
    THEN [out |-> Give(NoCapsule, NoSearch, NoLLM),
          dict |-> ApiDict(FALSE, ConstructError.text)]
    ELSE QuickReturn(pipeline_generate_healing_message(
                         user_input, QuickProfile(a), s, outcomes))

(* The healing-message service: one call at a time                           *)

UserInputs == {None, <<>>, <<" ">>, <<"m">>, <<" ", "n", " ">>}

ChatProfiles ==
    {NoneProfile, DictProfile,
     UserProfile(<<"Lee">>, 35, <<"male">>, <<"ITdev">>, "XOO", << <<"s">> >>),
     UserProfile(<<"user">>, 25, <<"other">>, <<"IT">>, "XXX", <<>>),
     UserProfile(<<>>, 61, <<"female">>, <<"etc">>, "OOO", << <<"T">> >>),
     UserProfile(<<"user">>, 15, <<" ">>, <<>>, "OXX", << <<"s">>, <<"T">> >>)}

\* the arguments of quick_healing_message: the defaults of its signature but
\* for the nickname, the three flags and the survey keywords
QuickFlags == {<<FALSE, FALSE, FALSE>>, <<TRUE, FALSE, TRUE>>, <<TRUE, TRUE, TRUE>>}
QuickArgs ==
    {[nickname |-> n, age |-> 25, gender |-> <<"other">>, occupation |-> <<"etc">>,
      depression |-> fl[1], anxiety |-> fl[2], work_stress |-> fl[3],
      survey_keywords |-> kw] :
        n \in {<<"user">>, <<>>}, fl \in QuickFlags,
        kw \in {<<>>, << <<"T">>, <<>> >>}}

\* the stores the healing-message service runs on
ChatStores == {{}, {DocB}, Corpus}

\* which service calls raise during one request: none, the first or all of the
\* sub-queries, or the main query with or without the plain search
ChatFailurePatterns ==
    {[main |-> FALSE, subs |-> fs, basic |-> FALSE] : fs \in {{}, {1}, 1..(4 + 3 + 6)}}
    \cup {[main |-> TRUE, subs |-> {}, basic |-> b] : b \in BOOLEAN}

LLMOutcomes == [1..max_retries -> {"text", "blank", "raise"}]

\* A request is drawn with the failures and the outcomes of the calls it makes:
\* a request that stops at the validation or is answered from the cache calls
\* no search service, one that finds no document calls no language model.
NoFailure == [main |-> FALSE, subs |-> {}, basic |-> FALSE]
AllText == [i \in 1..max_retries |-> "text"]

ReachesSearch(user_input, user_profile) ==
    /\ ~IsFalsy(user_input)
    /\ ~IsFalsy(Strip(user_input))
    /\ user_profile.class = "UserProfile"
    /\ ~IsFalsy(user_profile.nickname)

RequestFailures(cache, user_input, user_profile) ==
    IF /\ ReachesSearch(user_input, user_profile)
       /\ PriorityKey(ProfileMainQuery(user_input, user_profile),
                      ProfileSubQueries(user_profile), 3) \notin DOMAIN cache
    THEN ChatFailurePatterns
    ELSE {NoFailure}

\* the search call of a request that makes one
RequestSearch(S, cache, user_input, user_profile, f) ==
    IF ReachesSearch(user_input, user_profile)
    THEN ProfileSearch(S, cache, user_input, user_profile, f)
    ELSE [raised |-> FALSE, result |-> <<>>, cache |-> cache, calls |-> 0,
          path |-> "none", basic |-> "none", main_docs_with_scores |-> <<>>,
          sub_docs_with_scores |-> <<>>, doc_scores |-> <<>>, sub_failed |-> {}]

RequestOutcomes(user_input, user_profile, s) ==
    IF ReachesSearch(user_input, user_profile) /\ s.result # <<>>
    THEN LLMOutcomes
    ELSE {AllText}

InitChat ==
    /\ store \in ChatStores
    /\ search_cache = EmptyCache
    /\ stored_by = EmptyCache
    /\ ret = Idle
    /\ ConfIdle
    /\ ChatIdle

\* a get_pipeline that builds where one is kept already
api_get_pipeline_Rebuild(instance, built, openai_api_key, vector_db_path, construct_fails) ==
    IF construct_fails
    THEN [raised |-> TRUE, instance |-> instance, returned |-> NonePipeline,
          built |-> built]
    ELSE [raised |-> FALSE, instance |-> CheeURagPipeline(built + 1),
          returned |-> CheeURagPipeline(built + 1), built |-> built + 1]

\* api.get_pipeline(openai_api_key, vector_db_path) with instance in
\* _pipeline_instance and built pipelines built so far: what it raises or
\* returns and what it leaves in _pipeline_instance.  construct_fails: the
\* constructor of CheeURagPipeline raises, if it is called
api_get_pipeline(instance, built, openai_api_key, vector_db_path, construct_fails) ==
    IF instance.class = "None"
    THEN IF construct_fails
         THEN [raised |-> TRUE, instance |-> instance, returned |-> NonePipeline,
               built |-> built]
         ELSE [raised |-> FALSE, instance |-> CheeURagPipeline(built + 1),
               returned |-> CheeURagPipeline(built + 1), built |-> built + 1]
    ELSE [raised |-> FALSE, instance |-> instance, returned |-> instance,
          built |-> built]

\* the arguments of get_pipeline
ApiKeys == {None, <<"k">>, <<"K">>}
DbPaths == {None, <<"p">>}

\* a caller runs api.get_pipeline; the vector database of a new pipeline has
\* an empty cache
get_pipeline ==
    /\ chat.op = "none"
    /\ pipeline_instance.class # "None" \/ pipelines_built < MaxBuilt
    /\ \E openai_api_key \in ApiKeys, vector_db_path \in DbPaths :
       \E construct_fails \in BOOLEAN :
         \E g \in {api_get_pipeline(pipeline_instance, pipelines_built,
                                    openai_api_key, vector_db_path,
                                    construct_fails)} :
             /\ chat' = [op |-> "get_pipeline", raised |-> g.raised,
                         openai_api_key |-> openai_api_key,
                         vector_db_path |-> vector_db_path,
                         before |-> pipeline_instance,
                         built_before |-> pipelines_built,
                         returned |-> g.returned]
             /\ pipeline_instance' = g.instance
             /\ pipelines_built' = g.built
             /\ search_cache' = IF g.built > pipelines_built THEN EmptyCache
                                ELSE search_cache
    /\ UNCHANGED <<store, ret, stored_by, conf_vars>>

\* api.reset_pipeline: the pipeline is dropped, and the cache of its vector
\* database with it
reset_pipeline ==
    /\ chat.op = "none"
    /\ pipeline_instance.class # "None"
    /\ pipeline_instance' = NonePipeline
    /\ search_cache' = EmptyCache
    /\ UNCHANGED <<store, ret, stored_by, conf_vars, pipelines_built, chat>>

\* a caller runs CheeUChatbot.generate_healing_message of the pipeline's chatbot
CallChatbot ==
    /\ chat.op = "none"
    /\ pipeline_instance.class # "None"
    /\ \E user_input \in UserInputs, user_profile \in ChatProfiles :
       \E f \in RequestFailures(search_cache, user_input, user_profile) :
         \E s \in {RequestSearch(store, search_cache, user_input, user_profile, f)} :
             \E outcomes \in RequestOutcomes(user_input, user_profile, s) :
               \E out \in {chatbot_generate_healing_message(
                              user_input, user_profile, s, outcomes, max_retries)} :
                   /\ search_cache' = IF out.search.called THEN out.search.cache
                                      ELSE search_cache
                   /\ chat' = [op |-> "chatbot", user_input |-> user_input,
                               user_profile |-> user_profile,
                               retries |-> max_retries,
                               out |-> out, dict |-> NoDict]
    /\ UNCHANGED <<store, ret, stored_by, conf_vars, pipeline_instance, pipelines_built>>

\* the max_retries a caller gives to a chatbot of its own
RetryLimits == {0, 1, 2}

\* what the calls of llm.predict do for a chatbot that makes up to retries
OwnOutcomes(user_input, user_profile, s, retries) ==
    IF ReachesSearch(user_input, user_profile) /\ s.result # <<>>
    THEN [1..retries -> {"text", "blank", "raise"}]
    ELSE {<<>>}

\* a caller builds a CheeUChatbot with its own max_retries and runs
\* generate_healing_message on it: the vector database of the new chatbot
\* has an empty cache, which goes with the chatbot
CallOwnChatbot ==
    /\ chat.op = "none"
    /\ \E user_input \in UserInputs, user_profile \in ChatProfiles, retries \in RetryLimits :
       \E f \in RequestFailures(EmptyCache, user_input, user_profile) :
         \E s \in {RequestSearch(store, EmptyCache, user_input, user_profile, f)} :
             \E outcomes \in OwnOutcomes(user_input, user_profile, s, retries) :
               \E out \in {chatbot_generate_healing_message(
                              user_input, user_profile, s, outcomes, retries)} :
                   chat' = [op |-> "chatbot", user_input |-> user_input,
                            user_profile |-> user_profile,
                            retries |-> retries,
                            out |-> out, dict |-> NoDict]
    /\ UNCHANGED <<vdb_vars, conf_vars, pipeline_instance, pipelines_built>>

\* a caller runs CheeURagPipeline.generate_healing_message
CallPipeline ==
    /\ chat.op = "none"
    /\ pipeline_instance.class # "None"
    /\ \E user_input \in UserInputs, user_profile \in ChatProfiles :
       \E f \in RequestFailures(search_cache, user_input, user_profile) :
         \E s \in {RequestSearch(store, search_cache, user_input, user_profile, f)} :
             \E outcomes \in RequestOutcomes(user_input, user_profile, s) :
               \E out \in {pipeline_generate_healing_message(
                              user_input, user_profile, s, outcomes)} :
                   /\ search_cache' = IF out.search.called THEN out.search.cache
                                      ELSE search_cache
                   /\ chat' = [op |-> "pipeline", user_input |-> user_input,
                               user_profile |-> user_profile,
                               retries |-> max_retries,
                               out |-> out, dict |-> NoDict]
    /\ UNCHANGED <<store, ret, stored_by, conf_vars, pipeline_instance, pipelines_built>>

\* a caller runs api.quick_healing_message: get_pipeline builds the pipeline
\* if there is none, and the request runs on the pipeline's own cache
CallQuick ==
    /\ chat.op = "none"
    /\ pipeline_instance.class # "None" \/ pipelines_built < MaxBuilt
    /\ \E user_input \in UserInputs, a \in QuickArgs :
       \E construct_fails \in IF pipeline_instance.class = "None" THEN BOOLEAN ELSE {FALSE} :
         \E cache \in {IF pipeline_instance.class = "None" THEN EmptyCache ELSE search_cache} :
           \E g \in {api_get_pipeline(pipeline_instance, pipelines_built,
                                      None, None, construct_fails)} :
             \E f \in IF construct_fails THEN {NoFailure}
                      ELSE RequestFailures(cache, user_input, QuickProfile(a)) :
               \E s \in {RequestSearch(store, cache, user_input, QuickProfile(a), f)} :
                   \E outcomes \in IF construct_fails THEN {AllText}
                                   ELSE RequestOutcomes(user_input, QuickProfile(a), s) :
                     \E q \in {quick_healing_message(construct_fails, user_input,
                                                      a, s, outcomes)} :
                         /\ search_cache' = IF q.out.search.called
                                            THEN q.out.search.cache ELSE cache
                         /\ pipeline_instance' = g.instance
                         /\ pipelines_built' = g.built
                         /\ chat' = [op |-> "quick", user_input |-> user_input,
                                     user_profile |-> QuickProfile(a),
                                     retries |-> max_retries,
                                     out |-> q.out, dict |-> q.dict]
    /\ UNCHANGED <<store, ret, stored_by, conf_vars>>

\* except Exception: return [] in CheeURagPipeline.search_with_priority
PipelineSearchExcept(out) ==
    IF out.raised THEN [out EXCEPT !.raised = FALSE, !.result = <<>>] ELSE out

\* a wrapper that answers a blank main query with no documents
pipeline_search_with_priority_BlankGuard(S, cache, main_query, sub_queries, k, f) ==
    IF Strip(main_query) = <<>>
    THEN [raised |-> FALSE, result |-> <<>>, cache |-> cache, calls |-> 0,
          path |-> "blank", basic |-> "none", main_docs_with_scores |-> <<>>,
          sub_docs_with_scores |-> <<>>, doc_scores |-> <<>>, sub_failed |-> {}]
    ELSE PipelineSearchExcept(search_with_priority_weighting(
             S, cache, main_query, sub_queries, 7, 3, k, f.main, f.subs, f.basic))

\* CheeURagPipeline.search_with_priority: the search with the default weights
pipeline_search_with_priority(S, cache, main_query, sub_queries, k, f) ==
    PipelineSearchExcept(search_with_priority_weighting(
        S, cache, main_query, sub_queries, 7, 3, k, f.main, f.subs, f.basic))

\* the searches a caller of the pipeline asks for
PipelineMainQueries == {<<>>, <<" ">>, <<"m">>}
PipelineSubQueryLists == {<<>>, << <<"s">> >>}
PipelineKs == {1, 3}

\* a caller runs CheeURagPipeline.search_with_priority
CallPipelineSearch ==
    /\ chat.op = "none"
    /\ pipeline_instance.class # "None"
    /\ \E main_query \in PipelineMainQueries, sub_queries \in PipelineSubQueryLists,
          k \in PipelineKs :
         \E f \in FailurePatterns(sub_queries) :
           \E out \in {pipeline_search_with_priority(
                          store, search_cache, main_query, sub_queries, k, f)} :
               /\ search_cache' = out.cache
               /\ chat' = [op |-> "search", main_query |-> main_query,
                           sub_queries |-> sub_queries, k |-> k, out |-> out]
    /\ UNCHANGED <<store, ret, stored_by, conf_vars, pipeline_instance, pipelines_built>>

\* a caller runs CheeURagPipeline.determine_stress_type
CallDetermineStressType ==
    /\ chat.op = "none"
    /\ pipeline_instance.class # "None"
    /\ \E depression \in BOOLEAN, anxiety \in BOOLEAN, work_stress \in BOOLEAN :
           chat' = [op |-> "determine_stress_type",
                    flags |-> <<depression, anxiety, work_stress>>,
                    stress_type |-> determine_stress_type(depression, anxiety, work_stress)]
    /\ UNCHANGED <<vdb_vars, conf_vars, pipeline_instance, pipelines_built>>

\* a caller runs api.get_stress_type_info, which needs no pipeline
CallStressTypeInfo ==
    /\ chat.op = "none"
    /\ \E depression \in BOOLEAN, anxiety \in BOOLEAN, work_stress \in BOOLEAN :
         \E info \in {get_stress_type_info(depression, anxiety, work_stress)} :
           chat' = [op |-> "get_stress_type_info",
                    flags |-> <<depression, anxiety, work_stress>>,
                    stress_type |-> info.stress_type, info |-> info]
    /\ UNCHANGED <<vdb_vars, conf_vars, pipeline_instance, pipelines_built>>

\* a caller runs api.create_user_profile_simple, which needs no pipeline
CallCreateProfileSimple ==
    /\ chat.op = "none"
    /\ \E depression \in BOOLEAN, anxiety \in BOOLEAN, work_stress \in BOOLEAN :
         \E profile \in {create_user_profile_simple(
                              <<"user">>, 25, <<"other">>, <<"etc">>,
                              depression, anxiety, work_stress, <<>>)} :
           chat' = [op |-> "create_user_profile_simple",
                    flags |-> <<depression, anxiety, work_stress>>,
                    stress_type |-> profile.stress_type, profile |-> profile]
    /\ UNCHANGED <<vdb_vars, conf_vars, pipeline_instance, pipelines_built>>

(* CheeURagPipeline.batch_generate_healing_messages                          *)

\* the parameters of create_user_profile, and those without a default
create_user_profile_params ==
    {"nickname", "age", "gender", "occupation", "stress_type", "survey_keywords",
     "msi", "psi"}
create_user_profile_required ==
    {"nickname", "age", "gender", "occupation", "stress_type", "survey_keywords"}

UnexpectedKeywordError ==
    Exc("TypeError", <<"create_user_profile() got an unexpected keyword argument">>)
MissingArgumentError ==
    Exc("TypeError", <<"create_user_profile() missing a required argument">>)
BatchInputError == Exc("ValueError", <<"user_input is empty">>)

\* self.create_user_profile(**kwargs): a call by keywords binds them to the
\* parameters of the method, and raises TypeError when it cannot
create_user_profile_call(kwargs) ==
    IF ~(DOMAIN kwargs \subseteq create_user_profile_params)
    THEN [raised |-> TRUE, exc |-> UnexpectedKeywordError, profile |-> NoneProfile]
    ELSE IF ~(create_user_profile_required \subseteq DOMAIN kwargs)
    THEN [raised |-> TRUE, exc |-> MissingArgumentError, profile |-> NoneProfile]
    ELSE [raised |-> FALSE, exc |-> NoExc,
          profile |-> create_user_profile(
                          kwargs.nickname, kwargs.age, kwargs.gender,
                          kwargs.occupation, kwargs.stress_type,
                          kwargs.survey_keywords)]

\* request.get(key, default)
Get(request, key, default) ==
    IF key \in DOMAIN request THEN request[key] ELSE default

\* f"user{i+1}", i + 1 being the place of the request counted from 1
DefaultNickname(n) == <<"user", <<"1", "2", "3", "4">>[n]>>

\* the keywords with which the batch calls create_user_profile for the n-th
\* request (n counted from 1)
BatchKwargs(request, n) ==
    [nickname |-> Get(request, "nickname", DefaultNickname(n)),
     age |-> Get(request, "age", 25),
     gender |-> Get(request, "gender", <<"other">>),
     occupation |-> Get(request, "occupation", <<"etc">>),
     stress_type |-> Get(request, "stress_type", "XXX"),
     personal_keywords |-> Get(request, "personal_keywords", <<>>)]

\* the except clause of the loop: the entry of a request that raised
BatchFailed(n, cache, exc) ==
    [entry |-> [request_id |-> n - 1, success |-> FALSE, capsule |-> NoCapsule,
                error |-> exc.text],
     cache |-> cache]

\* results.append({"request_id": i, "success": True, "result": ...}); t: what
\* generate_healing_message gave
BatchAppended(n, cache, t) ==
    [entry |-> [request_id |-> n - 1, success |-> TRUE, capsule |-> t.capsule,
                error |-> None],
     cache |-> IF t.search.called THEN t.search.cache ELSE cache]

\* healing_capsule = self.generate_healing_message(user_input, user_profile)
BatchGenerate(S, cache, n, user_input, user_profile, outcomes) ==
    BatchAppended(n, cache,
        pipeline_generate_healing_message(
            user_input, user_profile,
            RequestSearch(S, cache, user_input, user_profile, NoFailure),
            outcomes))

\* if not user_profile: user_profile = self.create_user_profile(...); c: what
\* the call gave
BatchWithCreated(S, cache, n, user_input, c, outcomes) ==
    IF c.raised THEN BatchFailed(n, cache, c.exc)
    ELSE BatchGenerate(S, cache, n, user_input, c.profile, outcomes)

\* the body of the loop for the n-th request
BatchRequest(S, cache, request, n, outcomes) ==
    IF Strip(Get(request, "user_input", <<>>)) = <<>>
    THEN BatchFailed(n, cache, BatchInputError)
    ELSE IF Get(request, "user_profile", NoneProfile).class = "None"
    THEN BatchWithCreated(S, cache, n, Strip(request.user_input),
                          create_user_profile_call(BatchKwargs(request, n)), outcomes)
    ELSE BatchGenerate(S, cache, n, Strip(request.user_input),
                       request.user_profile, outcomes)

\* results and cache after one more request
BatchStep(acc, e) == [results |-> Append(acc.results, e.entry), cache |-> e.cache]

\* for i, request in enumerate(requests): the requests from the n-th on
RECURSIVE BatchLoop(_, _, _, _, _)
BatchLoop(S, requests, n, outcomes, acc) ==
    IF n > Len(requests) THEN acc
    ELSE BatchLoop(S, requests, n + 1, outcomes,
                   BatchStep(acc, BatchRequest(S, acc.cache, requests[n], n,
                                               outcomes[n])))

\* CheeURagPipeline.batch_generate_healing_messages; outcomes[n]: what the
\* calls of llm.predict do during the n-th request
batch_generate_healing_messages(S, cache, requests, outcomes) ==
    BatchLoop(S, requests, 1, outcomes, [results |-> <<>>, cache |-> cache])

\* the requests of a batch: with a profile, with a blank input, with the
\* fields of a profile in place of the profile, with a dict as profile
BatchProfile == UserProfile(<<"user">>, 25, <<"other">>, <<"IT">>, "XXX", <<>>)
BatchRequests ==
    {[user_input |-> <<" ", "m">>, user_profile |-> BatchProfile],
     [user_input |-> <<" ">>, user_profile |-> BatchProfile],
     [user_input |-> <<"m">>, nickname |-> <<"Kim">>, age |-> 35],
     [user_input |-> <<"m">>, user_profile |-> DictProfile]}

AllRaise == [i \in 1..max_retries |-> "raise"]

\* a caller runs CheeURagPipeline.batch_generate_healing_messages
CallBatch ==
    /\ chat.op = "none"
    /\ pipeline_instance.class # "None"
    /\ \E requests \in SeqsUpTo(BatchRequests, MaxRequests) :
         \E outcomes \in [1..Len(requests) -> {AllText, AllRaise}] :
           \E out \in {batch_generate_healing_messages(
                          store, search_cache, requests, outcomes)} :
               /\ search_cache' = out.cache
               /\ chat' = [op |-> "batch", requests |-> requests,
                           results |-> out.results]
    /\ UNCHANGED <<store, ret, stored_by, conf_vars, pipeline_instance, pipelines_built>>

\* the caller has taken what the call returned
ChatReturn ==
    /\ chat.op # "none"
    /\ chat' = Idle
    /\ UNCHANGED <<vdb_vars, conf_vars, pipeline_instance, pipelines_built>>

NextChat ==
    get_pipeline \/ CallChatbot \/ CallOwnChatbot
    \/ CallPipeline \/ CallQuick
    \/ CallPipelineSearch \/ CallDetermineStressType \/ CallStressTypeInfo
    \/ CallCreateProfileSimple \/ CallBatch \/ ChatReturn

SpecChat == InitChat /\ [][NextChat]_vars

\* the callers of the module-level pipeline: it is built, used and reset
NextApi == get_pipeline \/ reset_pipeline \/ CallQuick \/ ChatReturn

SpecApi == InitChat /\ [][NextApi]_vars

ChatReturned == chat.op \in {"chatbot", "pipeline", "quick"}

\* the text msg holds the text raw (one symbol) somewhere
Carries(msg, raw) == \E i \in 1..Len(msg) : msg[i] = raw[1]

\* the texts of a returned value
ResultTexts == {chat.out.capsule.healing_message, chat.out.capsule.error, chat.dict.error}

IsErrorCapsule(c) ==
    /\ ~c.success
    /\ c.healing_message \in {ErrorCapsuleMessage, PipelineErrorMessage}
    /\ c.sources = <<>>
    /\ c.confidence_score = 0
    /\ c.fallback

IsFallbackCapsule(c) ==
    /\ c.success
    /\ c.healing_message = FallbackMessage(c.stress_type)
    /\ c.sources = <<>>
    /\ c.confidence_score = (30 * ConfDen) \div 100
    /\ c.fallback
    /\ c.error = None

\* C7: generate_healing_message of the chatbot and of the pipeline never raises
\* and always returns a capsule, whatever the input, the profile and the
\* failures of the search service and of the language model.
C7_AlwaysCapsule ==
    chat.op \in {"chatbot", "pipeline"} =>
        /\ ~chat.out.raised
        /\ chat.out.capsule # NoCapsule
        /\ chat.out.capsule.healing_message # None

\* the chatbot was called, a sub-query search failed, the language model
\* raised on its last attempt, and a capsule came back
C7_Witness ==
    /\ chat.op = "chatbot"
    /\ chat.out.search.failed
    /\ chat.out.search.docs # <<>>
    /\ chat.out.llm.raised
    /\ ~chat.out.raised
    /\ IsErrorCapsule(chat.out.capsule)

\* C8 as stated: no returned value carries the raw error text of a failed
\* search or language-model call, and after any failed call the value holds
\* only fixed fallback content with a fixed low confidence.
C8_Original ==
    ChatReturned =>
        /\ \A t \in ResultTexts :
              ~Carries(t, LLMError.text) /\ ~Carries(t, SearchError.text)
        /\ (chat.out.search.failed \/ chat.out.llm.raised) =>
              (IsErrorCapsule(chat.out.capsule) \/ IsFallbackCapsule(chat.out.capsule))

\* C8: no returned value carries the raw error text of a failed search call,
\* and none carries that of a failed language-model call in its healing
\* message; when the last attempt of the language model raises, its text is
\* returned in the error field of the fixed error capsule (confidence 0.0),
\* and when the search returns no documents the value is the fixed fallback
\* capsule (confidence 0.3).
C8_ErrorFieldOnly ==
    ChatReturned =>
        /\ \A t \in ResultTexts : ~Carries(t, SearchError.text)
        /\ ~Carries(chat.out.capsule.healing_message, LLMError.text)
        /\ ~Carries(chat.dict.error, LLMError.text)
        /\ chat.out.llm.raised <=> chat.out.capsule.error = LLMError.text
        /\ chat.out.llm.raised => IsErrorCapsule(chat.out.capsule)
        /\ (chat.out.search.called /\ chat.out.search.docs = <<>>) =>
              IsFallbackCapsule(chat.out.capsule)

\* quick_healing_message after a failed sub-query search and a language model
\* that raised on its last attempt: the dict holds the error capsule
C8_Witness ==
    /\ chat.op = "quick"
    /\ chat.out.search.failed
    /\ chat.out.llm.raised
    /\ chat.dict.success
    /\ IsErrorCapsule(chat.out.capsule)
    /\ chat.out.capsule.error = LLMError.text

\* a search with a blank main query has returned
BlankSearchReturned == chat.op = "search" /\ Strip(chat.main_query) = <<>>

\* a capsule has been returned for a blank user input
BlankInputCapsule ==
    /\ ChatReturned
    /\ IsFalsy(chat.user_input) \/ IsFalsy(Strip(chat.user_input))
    /\ chat.out.capsule # NoCapsule

\* C15 as stated: a blank main query gives no documents, and the capsule for a
\* blank user input has no sources and confidence 0.0
C15_Original ==
    /\ BlankSearchReturned => (~chat.out.raised /\ chat.out.result = <<>>)
    /\ BlankInputCapsule =>
          (chat.out.capsule.sources = <<>> /\ chat.out.capsule.confidence_score = 0)

\* C15, what the code does: a blank main query is searched like any other: the call does not
\* raise, returns at most k documents, and returns none exactly when the store
\* is empty or the main query and the plain search of the fallback both fail;
\* the capsule for a blank user input has no sources and confidence 0.0, and
\* no search is made for it.
C15_BlankInput ==
    /\ BlankSearchReturned =>
          /\ ~chat.out.raised
          /\ Len(chat.out.result) <= chat.k
          /\ chat.out.result = <<>> <=> (store = {} \/ chat.out.basic = "failed")
    /\ BlankInputCapsule =>
          /\ chat.out.capsule.sources = <<>>
          /\ chat.out.capsule.confidence_score = 0
          /\ ~chat.out.search.called

\* a main query of one space, no failure, and three documents returned
C15_Witness ==
    /\ BlankSearchReturned
    /\ chat.main_query = <<" ">>
    /\ chat.out.path = "fusion"
    /\ chat.out.sub_failed = {}
    /\ Len(chat.out.result) = 3

\* a healing-message call that made its search has returned
SearchDone == ChatReturned /\ chat.out.search.called

\* C16 as stated: when the search returns documents the language model is
\* called, whatever the chatbot was built with.
C16_Original ==
    (SearchDone /\ chat.out.search.docs # <<>>) => chat.out.llm.calls >= 1

\* C16: when the search returns no documents the call returns the fallback
\* capsule (success, fallback, no sources, confidence 0.3) and the language
\* model is not called; when it returns documents the language model is
\* called, unless the chatbot was built with max_retries below 1, whatever
\* their confidence, which is computed for the generated capsule only.
C16_FallbackWithoutLLM ==
    SearchDone =>
        /\ chat.out.search.docs = <<>> =>
              /\ IsFallbackCapsule(chat.out.capsule)
              /\ chat.out.llm.calls = 0
        /\ chat.out.search.docs # <<>> =>
              /\ chat.retries >= 1 => chat.out.llm.calls >= 1
              /\ chat.retries < 1 =>
                    /\ chat.out.llm.calls = 0
                    /\ IsErrorCapsule(chat.out.capsule)
              /\ chat.out.capsule.success =>
                    /\ ~chat.out.capsule.fallback
                    /\ chat.out.capsule.sources = Sources(chat.out.search.docs)
                    /\ chat.out.capsule.confidence_score =
                          calculate_search_confidence(chat.out.search.docs,
                                                      chat.out.capsule.keywords_used)

\* documents whose confidence is below the 0.3 of the fallback capsule, and a
\* capsule generated by the language model all the same
C16_Witness ==
    /\ SearchDone
    /\ chat.out.search.docs # <<>>
    /\ chat.out.llm.calls >= 1
    /\ chat.out.capsule.success
    /\ ~chat.out.capsule.fallback
    /\ chat.out.capsule.confidence_score < (30 * ConfDen) \div 100

\* quick_healing_message has returned its dict
QuickReturned == chat.op = "quick"

\* C17: a dict of quick_healing_message with success = True holds a capsule
\* that was generated successfully (result.success true, result.error unset);
\* a failed generation is reported with success = False and an error entry.
C17_SuccessMeansGenerated ==
    QuickReturned =>
        /\ chat.dict.success =>
              (chat.out.capsule.success /\ chat.out.capsule.error = None)
        /\ ~(chat.out.capsule.success /\ chat.out.capsule.error = None) =>
              (~chat.dict.success /\ chat.dict.error # None)

\* the entries generate_healing_message collects for a profile, before the
\* filter: the four profile entries, the first three occupation keywords, the
\* first two keywords of the three persona categories
Collected(p) ==
    <<get_age_group(p.age), p.gender, p.occupation, Join(p.personal_keywords)>>
    \o Head_(OCCUPATION_KEYWORDS(p.occupation), 3)
    \o (IF p.nickname \o <<"_">> \o p.occupation \in PersonaKeys
        THEN Head_(PERSONA_KEYWORDS(p.nickname \o <<"_">> \o p.occupation).stress_keywords, 2)
             \o Head_(PERSONA_KEYWORDS(p.nickname \o <<"_">> \o p.occupation).lifestyle_keywords, 2)
             \o Head_(PERSONA_KEYWORDS(p.nickname \o <<"_">> \o p.occupation).therapy_focus, 2)
        ELSE <<>>)

\* the places of the collected entries that are not blank
NonBlankPlaces(l) == {i \in 1..Len(l) : l[i] # None /\ Strip(l[i]) # <<>>}

\* C23: every sub-query generate_healing_message passes to the search is
\* trimmed and not blank; the list is made of the non-blank ones among the four
\* profile entries, at most 3 occupation keywords and at most 2 keywords of
\* each of the three persona categories, in that order: at most 13 sub-queries.
C23_SubQueriesTrimmed ==
    SearchDone =>
        /\ \A i \in 1..Len(chat.out.search.sub_queries) :
              /\ chat.out.search.sub_queries[i] # <<>>
              /\ chat.out.search.sub_queries[i] # None
              /\ Strip(chat.out.search.sub_queries[i]) = chat.out.search.sub_queries[i]
        /\ Len(chat.out.search.sub_queries) <= 4 + 3 + 2 * 3
        /\ Len(Collected(chat.user_profile)) <= 4 + 3 + 2 * 3
        /\ Len(chat.out.search.sub_queries) =
              Cardinality(NonBlankPlaces(Collected(chat.user_profile)))
        /\ \A i \in NonBlankPlaces(Collected(chat.user_profile)) :
              chat.out.search.sub_queries[
                  Cardinality({j \in NonBlankPlaces(Collected(chat.user_profile)) : j <= i})]
                = Strip(Collected(chat.user_profile)[i])

\* a profile whose joined keywords end with a space and whose occupation has
\* keywords: four profile entries, trimmed, and three occupation keywords
C23_Witness ==
    /\ SearchDone
    /\ Collected(chat.user_profile)[4] = <<"T", " ">>
    /\ Len(chat.out.search.sub_queries) = 4 + 3
    /\ chat.out.search.sub_queries[4] = <<"T">>
    /\ chat.out.search.sub_queries[7] = <<"stress">>

\* one of the three classifications has returned
Classified ==
    chat.op \in {"determine_stress_type", "get_stress_type_info",
                 "create_user_profile_simple"}

FlagTriples == BOOLEAN \X BOOLEAN \X BOOLEAN

\* C24: the stress type is a function of the three flags alone: the code of
\* every combination is a key of the mapping (the default is not taken), the
\* variant names the flags that are set, two combinations never give the
\* same variant, every variant is given by one,
\* and determine_stress_type, get_stress_type_info and
\* create_user_profile_simple give the same variant for the same flags.
C24_Classification ==
    Classified =>
        /\ chat.stress_type \in StressTypes
        /\ StressCode(chat.flags[1], chat.flags[2], chat.flags[3])
              \in (DOMAIN stress_type_mapping \cap DOMAIN info_stress_type_mapping
                   \cap DOMAIN simple_stress_type_mapping)
        /\ chat.flags[1] <=> chat.stress_type \in {"OXX", "OOX", "OXO", "OOO"}
        /\ chat.flags[2] <=> chat.stress_type \in {"XOX", "OOX", "XOO", "OOO"}
        /\ chat.flags[3] <=> chat.stress_type \in {"XXO", "OXO", "XOO", "OOO"}
        /\ \A other \in FlagTriples \ {chat.flags} :
              determine_stress_type(other[1], other[2], other[3]) # chat.stress_type
        /\ {determine_stress_type(f[1], f[2], f[3]) : f \in FlagTriples} = StressTypes
        /\ chat.stress_type =
              determine_stress_type(chat.flags[1], chat.flags[2], chat.flags[3])
        /\ chat.stress_type =
              get_stress_type_info(chat.flags[1], chat.flags[2], chat.flags[3]).stress_type
        /\ chat.stress_type =
              create_user_profile_simple(<<"user">>, 25, <<"other">>, <<"etc">>,
                  chat.flags[1], chat.flags[2], chat.flags[3], <<>>).stress_type

\* create_user_profile_simple has classified anxiety with work stress, and
\* not as the default variant
C24_Witness ==
    /\ chat.op = "create_user_profile_simple"
    /\ chat.flags = <<FALSE, TRUE, TRUE>>
    /\ chat.stress_type = "XOO"
    /\ chat.profile.stress_type # "XXX"

\* generate_healing_message of a chatbot or of a pipeline has returned
Generated == chat.op \in {"chatbot", "pipeline"}

\* no call of the language model gave a response that is not blank
NoTextResponse ==
    \A i \in 1..Len(chat.out.llm.trace) : chat.out.llm.trace[i] # "text"

\* C25: one request calls the language model at most max_retries times and
\* not again after the first response that is not blank; when documents were
\* found and every attempt raises or gives a blank response (max_retries = 0:
\* no attempt), every attempt is made and the request ends with an error
\* capsule; no capsule holds an empty message.
C25_BoundedRetries ==
    Generated =>
        /\ chat.out.llm.calls = Len(chat.out.llm.trace)
        /\ chat.out.llm.calls <= Max2(chat.retries, 0)
        /\ \A i \in 1..(Len(chat.out.llm.trace) - 1) : chat.out.llm.trace[i] # "text"
        /\ (chat.out.search.docs # <<>> /\ NoTextResponse) =>
              /\ chat.out.llm.calls = Max2(chat.retries, 0)
              /\ ~chat.out.capsule.success
              /\ IsErrorCapsule(chat.out.capsule)
              /\ chat.out.capsule.error \in {LLMError.text, EmptyResponseError.text}
        /\ (chat.out.capsule.success /\ ~chat.out.capsule.fallback) =>
              /\ chat.out.llm.calls >= 1
              /\ chat.out.llm.trace[Len(chat.out.llm.trace)] = "text"
        /\ chat.out.capsule.healing_message # None
        /\ Strip(chat.out.capsule.healing_message) # <<>>

\* three attempts, the first and the last with a blank response, the second
\* raising: the error capsule for an empty response
C25_Witness ==
    /\ Generated
    /\ chat.retries = max_retries
    /\ chat.out.llm.trace = <<"blank", "raise", "blank">>
    /\ IsErrorCapsule(chat.out.capsule)
    /\ chat.out.capsule.error = EmptyResponseError.text

\* the batch has returned its list
BatchReturned == chat.op = "batch"

\* the input of the request is blank; the request has no user_profile
BlankRequest(request) == Strip(Get(request, "user_input", <<>>)) = <<>>
WithoutProfile(request) == "user_profile" \notin DOMAIN request

\* one entry per request, in the order of the requests, request_id the index
OnePerRequest ==
    /\ Len(chat.results) = Len(chat.requests)
    /\ \A n \in 1..Len(chat.results) : chat.results[n].request_id = n - 1

GotPipeline == chat.op = "get_pipeline"

\* what a call of get_pipeline leaves: the pipeline it returns is the one
\* kept; where one was kept it is that one; a constructor that raised leaves
\* none kept; where none was kept the pipeline returned is one never built
\* before
GetPipelineReturn ==
    GotPipeline =>
        /\ chat.raised =>
              /\ chat.before = NonePipeline
              /\ pipeline_instance = NonePipeline
              /\ pipelines_built = chat.built_before
        /\ ~chat.raised =>
              /\ pipeline_instance.class = "CheeURagPipeline"
              /\ chat.returned = pipeline_instance
        /\ chat.before.class # "None" =>
              /\ ~chat.raised
              /\ chat.returned = chat.before
              /\ pipelines_built = chat.built_before
        /\ (chat.before.class = "None" /\ ~chat.raised) =>
              /\ chat.returned.id \notin 0..chat.built_before
              /\ pipelines_built = chat.returned.id

\* a step changes the pipeline kept only from a pipeline to none (a reset) or
\* from none to a pipeline never built before
KeptStep ==
    /\ pipeline_instance.class # "None" =>
          pipeline_instance' \in {pipeline_instance, NonePipeline}
    /\ pipeline_instance.class = "None" =>
          \/ pipeline_instance' = NonePipeline
          \/ /\ pipeline_instance'.class = "CheeURagPipeline"
             /\ pipeline_instance'.id \notin 0..pipelines_built

\* C27: between resets at most one pipeline is kept, and once a call of
\* get_pipeline has succeeded every later call returns that same pipeline
\* whatever key or path it is given; a constructor that raises leaves none
\* kept, so that the next call builds again; after reset_pipeline the next
\* call builds a pipeline that is not one built before.
C27_Singleton == [](GetPipelineReturn) /\ [][KeptStep]_vars

\* the second pipeline, built after a reset, is returned to a call that
\* names a key and a path of its own
C27_Witness ==
    /\ GotPipeline
    /\ chat.before = CheeURagPipeline(2)
    /\ chat.returned = CheeURagPipeline(2)
    /\ chat.openai_api_key # None
    /\ chat.vector_db_path # None

\* a search has returned the entry of the cache under key
BasicHit == ret.op = "basic" /\ ret.out.basic = "cache_hit"
PriorityHit == PriorityReturned /\ ret.out.path = "cache_hit"
FallbackHit ==
    PriorityReturned /\ ret.out.path = "fallback" /\ ret.out.basic = "cache_hit"

\* the entry under key was stored when the collection was what it is now:
\* no document has been added since
StoredOnStore(key) == stored_by[key].store = store

\* C28: after an add_documents that has added at least one batch, whether it
\* returned or raised on a later batch, no search_basic and no
\* search_with_priority_weighting returns a result that was cached before the
\* addition.
C28_NoStaleResult ==
    /\ BasicHit => StoredOnStore(BasicKey(ret.query, ret.k))
    /\ PriorityHit =>
          StoredOnStore(PriorityKey(ret.main_query, ret.sub_queries, ret.k))
    /\ FallbackHit => StoredOnStore(BasicKey(ret.main_query, ret.k))

\* C29: a result is stored in the cache only by a call all of whose calls of
\* the similarity search succeeded; what a call computes after its main query
\* or one of its sub-queries has failed is never cached.
C29_CachedOnlyAfterSuccess ==
    \A key \in DOMAIN search_cache : ~stored_by[key].failed

\* the three shapes of a capsule of the chatbot
GeneratedShape(c) ==
    /\ c.success
    /\ ~c.fallback
    /\ Len(c.sources) >= 1
    /\ c.error = None
    /\ c.confidence_score >= 0
    /\ c.confidence_score <= ConfDen

FallbackShape(c) ==
    /\ c.success
    /\ c.fallback
    /\ c.sources = <<>>
    /\ c.confidence_score * 10 = 3 * ConfDen
    /\ c.error = None

ErrorShape(c) ==
    /\ ~c.success
    /\ c.fallback
    /\ c.sources = <<>>
    /\ c.confidence_score = 0
    /\ c.error # None

\* C30: every capsule that generate_healing_message of the chatbot returns
\* has one of three shapes: generated (success, not fallback, at least one
\* source, no error, confidence in [0, 1]), fallback (success, fallback, no
\* source, confidence 0.3, no error) or error (no success, fallback, no source,
\* confidence 0.0, an error); it is not a fallback only if the search returned
\* a document and the language model a response that is not blank.
C30_CapsuleShapes ==
    chat.op = "chatbot" =>
        /\ \/ GeneratedShape(chat.out.capsule)
           \/ FallbackShape(chat.out.capsule)
           \/ ErrorShape(chat.out.capsule)
        /\ ~chat.out.capsule.fallback =>
              /\ chat.out.search.docs # <<>>
              /\ Len(chat.out.capsule.sources) = Len(chat.out.search.docs)
              /\ \E i \in 1..Len(chat.out.llm.trace) : chat.out.llm.trace[i] = "text"

\* a generated capsule with several sources, made on the third attempt of the
\* language model after a search in which a query failed
C30_Witness ==
    /\ chat.op = "chatbot"
    /\ GeneratedShape(chat.out.capsule)
    /\ Len(chat.out.capsule.sources) >= 2
    /\ chat.out.llm.calls = 3
    /\ chat.out.search.failed

=============================================================================
